---- MODULE Spec2Model ----
(***************************************************************************)
(* Model of embassy-stm32/src/usb/usb_host.rs: the USB host driver of the  *)
(* STM32 full-speed controller (32-bit packet memory configuration,        *)
(* cfg usbram_32_2048, the one whose btable module the file contains).     *)
(*                                                                         *)
(* Granularity.  A task-side step is one statement group of the source: a  *)
(* register read-modify-write helper (activate, disable, a claim's         *)
(* configuration write) is one step, a waker registration is one step, the *)
(* bus/timeout check of a poll is one step and the status match of a poll  *)
(* is one step.  The interrupt handler is split at its register accesses   *)
(* of ISTR (read, then one step per branch); it runs to completion with    *)
(* respect to tasks, while the controller hardware may act between any two *)
(* steps of either.                                                        *)
(***************************************************************************)
EXTENDS Integers, Sequences, FiniteSets, TLC

VARIABLES
    drv,        \* USBHostDriver fields: ep_mem_free, channels_*_used, control channels
    handles,    \* Channel handles returned to callers and not yet dropped
    epr,        \* channel-control registers CHEPnR, one per channel index
    istr,       \* interrupt status register (software-visible stored bits)
    mem,        \* packet memory USBRAM, word index -> 32-bit word (written words)
    wakers,     \* EP_IN_WAKERS, EP_OUT_WAKERS, BUS_WAKER: the registered waker
    woken,      \* tasks whose waker has been woken and that were not polled since
    isr,        \* position and locals of USBHostInterruptHandler::on_interrupt
    rd,         \* the task running Channel<In>::read
    wr,         \* the task running Channel<Out>::write
    now,        \* embassy_time::Instant::now(), in milliseconds
    hw,         \* controller-side bookkeeping: transactions completed so far
    last,       \* the last driver call and what it returned
    calc,       \* input and output of a calc_receive_len_bits evaluation
    ctl,        \* the task running control_request_out / control_request_in
    wt,         \* the task running wait_for_device_connect / _disconnect
    env,        \* what the caller uses in this run: the endpoint number it claims
    panicked    \* a panic!/assert! fired: the program has stopped

vars == <<drv, handles, epr, istr, mem, wakers, woken, isr, rd, wr, now, hw,
          last, calc, ctl, wt, env, panicked>>

(***************************************************************************)
(* Program constants                                                       *)
(***************************************************************************)
EP_COUNT == 8
USBRAM_SIZE == 2048
USBRAM_ALIGN == 4

\* crate::pac::usb::vals::Stat
DISABLED == 0
STALL == 1
NAK == 2
VALID == 3

Channels == 0 .. (EP_COUNT - 1)
StatValues == {DISABLED, STALL, NAK, VALID}

(***************************************************************************)
(* Bounds of the model                                                     *)
(***************************************************************************)
MaxCalcLen == 1030      \* calc_receive_len_bits is tried on 0 .. MaxCalcLen
MaxCalls == 3           \* driver calls in one run of the allocation model

(***************************************************************************)
(* Fixed-width arithmetic                                                  *)
(***************************************************************************)
U16(x) == x % 65536

RECURSIVE BitAnd(_, _)
BitAnd(a, b) ==
    IF a = 0 \/ b = 0 THEN 0
    ELSE (IF a % 2 = 1 /\ b % 2 = 1 THEN 1 ELSE 0) + 2 * BitAnd(a \div 2, b \div 2)

RECURSIVE BitOr(_, _)
BitOr(a, b) ==
    IF a = 0 THEN b
    ELSE IF b = 0 THEN a
    ELSE (IF a % 2 = 1 \/ b % 2 = 1 THEN 1 ELSE 0) + 2 * BitOr(a \div 2, b \div 2)

RECURSIVE BitXor(_, _)
BitXor(a, b) ==
    IF a = 0 THEN b
    ELSE IF b = 0 THEN a
    ELSE (((a % 2) + (b % 2)) % 2) + 2 * BitXor(a \div 2, b \div 2)

\* u16 `x << n`
Shl16(x, n) == U16(x * (2 ^ n))

\* u8 `!x`
NotU8(x) == 255 - x

(***************************************************************************)
(* Length encoding of the receive buffer descriptor                        *)
(***************************************************************************)
align_len_up(len) ==
    U16(((len + USBRAM_ALIGN - 1) \div USBRAM_ALIGN) * USBRAM_ALIGN)

\* (actual_len, len_bits) of calc_receive_len_bits, or its panic
LenBits(actual_len, len_bits) ==
    [panic |-> FALSE, actual_len |-> actual_len, len_bits |-> len_bits]
LenPanic == [panic |-> TRUE, actual_len |-> 0, len_bits |-> 0]

calc_receive_len_bits_no_minus_one(len) ==
    IF len >= 2 /\ len <= 60
    THEN LenBits(align_len_up(len), Shl16(align_len_up(len) \div 2, 10))
    ELSE IF len >= 61 /\ len <= 1024
    THEN LenBits(U16((U16(len + 31) \div 32) * 32),
                 BitOr(Shl16(U16(len + 31) \div 32, 10), 32768))
    ELSE LenPanic

calc_receive_len_bits(len) ==
    IF len >= 2 /\ len <= 60
    THEN LenBits(align_len_up(len), Shl16(align_len_up(len) \div 2, 10))
    ELSE IF len >= 61 /\ len <= 1024
    THEN LenBits(U16((U16(len + 31) \div 32) * 32),
                 BitOr(Shl16(U16(len + 31) \div 32 - 1, 10), 32768))
    ELSE LenPanic

\* The controller's reading of a receive descriptor's length field (bits 26..31
\* of the descriptor word, i.e. bits 10..15 of len_bits): BL_SIZE flag clear,
\* 2 bytes per block; set, 32 bytes per block and one block more.
DecodeLenBits(bits) ==
    LET num_block == BitAnd(bits \div 1024, 31)
    IN  IF BitAnd(bits, 32768) = 0 THEN 2 * num_block ELSE 32 * (num_block + 1)

(***************************************************************************)
(* Channel-control register                                                *)
(***************************************************************************)
EprReset ==
    [ctr_rx |-> FALSE, ctr_tx |-> FALSE, dtog_rx |-> FALSE, dtog_tx |-> FALSE,
     stat_rx |-> DISABLED, stat_tx |-> DISABLED, err_rx |-> FALSE, err_tx |-> FALSE,
     setup |-> FALSE, devaddr |-> 0, ep_type |-> "BULK", ea |-> 0]

\* What a write of value w does to a register holding cur: the complete and
\* error flags are cleared by a written 0 and kept by a written 1, the toggle
\* and status bits flip where a 1 is written, the rest is stored.
EprWrite(cur, w) ==
    [ctr_rx  |-> cur.ctr_rx /\ w.ctr_rx,
     ctr_tx  |-> cur.ctr_tx /\ w.ctr_tx,
     dtog_rx |-> (cur.dtog_rx # w.dtog_rx),
     dtog_tx |-> (cur.dtog_tx # w.dtog_tx),
     stat_rx |-> BitXor(cur.stat_rx, w.stat_rx),
     stat_tx |-> BitXor(cur.stat_tx, w.stat_tx),
     err_rx  |-> cur.err_rx /\ w.err_rx,
     err_tx  |-> cur.err_tx /\ w.err_tx,
     setup   |-> w.setup,
     devaddr |-> w.devaddr,
     ep_type |-> w.ep_type,
     ea      |-> w.ea]

invariant_keeps_status(r) ==
    [r EXCEPT !.ctr_rx = TRUE, !.ctr_tx = TRUE, !.dtog_rx = FALSE, !.dtog_tx = FALSE]

invariant(r) ==
    [r EXCEPT !.ctr_rx = TRUE, !.ctr_tx = TRUE, !.dtog_rx = FALSE, !.dtog_tx = FALSE,
              !.stat_rx = 0, !.stat_tx = 0]

\* The setup-stage write of a control request: invariant(), set_setup(true)
setup_stage_write(e) == EprWrite(e, [invariant(e) EXCEPT !.setup = TRUE])

(***************************************************************************)
(* Packet memory and the buffer descriptor table (mod btable)              *)
(***************************************************************************)
\* A 32-bit word is kept as its two 16-bit halves: value = lo + 65536 * hi.
Word(lo, hi) == [lo |-> lo, hi |-> hi]

MemRead(m, w) == IF w \in DOMAIN m THEN m[w] ELSE Word(0, 0)

MemWrite(m, w, v) == [x \in (DOMAIN m) \cup {w} |-> IF x = w THEN v ELSE m[x]]

\* no-op in the 32-bit configuration
write_in(m, index, addr) == m

\* (addr as u32) | ((len as u32) << 16)
write_transmit_buffer_descriptor(m, index, addr, len) ==
    MemWrite(m, index * 2, Word(U16(addr), U16(len)))

write_receive_buffer_descriptor(m, index, addr, max_len_bits) ==
    MemWrite(m, index * 2 + 1, Word(U16(addr), U16(max_len_bits)))

\* (word >> 16) as u16
read_out_len(m, index) == MemRead(m, index * 2 + 1).hi

(***************************************************************************)
(* USBHostDriver: allocation of channels and packet memory                 *)
(***************************************************************************)
Channel_new(index, addr, len, max_packet_size) ==
    [index |-> index, max_packet_size |-> max_packet_size, addr |-> addr, len |-> len]

\* USBHostDriver::new
DrvNew ==
    [ep_mem_free |-> EP_COUNT * 8,
     control_channel_in |-> Channel_new(0, 0, 0, 0),
     control_channel_out |-> Channel_new(0, 0, 0, 0),
     channels_in_used |-> 0,
     channels_out_used |-> 0]

reset_alloc_keeps_used(d) ==
    [d EXCEPT !.ep_mem_free = EP_COUNT * 8]

reset_alloc(d) ==
    [d EXCEPT !.ep_mem_free = EP_COUNT * 8,
              !.channels_in_used = 0,
              !.channels_out_used = 0]

\* [drv, ok, addr, panic]; the u16 sums wrap as in a release build
alloc_channel_mem(d, len) ==
    LET addr == d.ep_mem_free
    IN  IF len % USBRAM_ALIGN # 0
        THEN [drv |-> d, ok |-> FALSE, addr |-> 0, panic |-> TRUE]
        ELSE IF U16(addr + len) > USBRAM_SIZE
        THEN [drv |-> d, ok |-> FALSE, addr |-> 0, panic |-> FALSE]
        ELSE [drv |-> [d EXCEPT !.ep_mem_free = U16(@ + len)],
              ok |-> TRUE, addr |-> addr, panic |-> FALSE]

\* The result of a call: ok with the Channel, or Err(()) for the reason named
\* in err (the source returns the same Err(()) for every reason), or a panic.
ResOk(chan) == [ok |-> TRUE, err |-> "None", chan |-> chan, panic |-> FALSE]
ResErr(why) == [ok |-> FALSE, err |-> why, chan |-> Channel_new(0, 0, 0, 0), panic |-> FALSE]
ResPanic == [ok |-> FALSE, err |-> "Panic", chan |-> Channel_new(0, 0, 0, 0), panic |-> TRUE]

\* The configuration write of a claim (lines 458-464, 492-498)
ConfigureEpr(e, index, ep_type, dev_addr) ==
    [e EXCEPT ![index] =
        EprWrite(@, [invariant(@) EXCEPT !.devaddr = dev_addr,
                                         !.ep_type = ep_type,
                                         !.ea = index])]

\* [drv, epr, mem, res]
claim_channel_in(d, e, m, index, max_packet_size, ep_type, dev_addr) ==
    IF BitAnd(d.channels_in_used, 2 ^ index) # 0
    THEN [drv |-> d, epr |-> e, mem |-> m, res |-> ResErr("AlreadyInUse")]
    ELSE LET d1 == [d EXCEPT !.channels_in_used = BitOr(@, 2 ^ index)]
             lb == calc_receive_len_bits(max_packet_size)
         IN  IF lb.panic
             THEN [drv |-> d1, epr |-> e, mem |-> m, res |-> ResPanic]
             ELSE LET a == alloc_channel_mem(d1, lb.actual_len)
                  IN  IF a.panic
                      THEN [drv |-> d1, epr |-> e, mem |-> m, res |-> ResPanic]
                      ELSE IF ~a.ok
                      THEN [drv |-> d1, epr |-> e, mem |-> m, res |-> ResErr("OutOfMemory")]
                      ELSE [drv |-> a.drv,
                            epr |-> ConfigureEpr(e, index, ep_type, dev_addr),
                            mem |-> write_receive_buffer_descriptor(m, index, a.addr, lb.len_bits),
                            res |-> ResOk(Channel_new(index, a.addr, lb.actual_len, max_packet_size))]

\* [drv, epr, mem, res]
claim_channel_out(d, e, m, index, max_packet_size, ep_type, dev_addr) ==
    IF BitAnd(d.channels_out_used, 2 ^ index) # 0
    THEN [drv |-> d, epr |-> e, mem |-> m, res |-> ResErr("AlreadyInUse")]
    ELSE LET d1 == [d EXCEPT !.channels_out_used = BitOr(@, 2 ^ index)]
             len == align_len_up(max_packet_size)
             a == alloc_channel_mem(d1, len)
         IN  IF a.panic
             THEN [drv |-> d1, epr |-> e, mem |-> m, res |-> ResPanic]
             ELSE IF ~a.ok
             THEN [drv |-> d1, epr |-> e, mem |-> m, res |-> ResErr("OutOfMemory")]
             ELSE [drv |-> a.drv,
                   epr |-> ConfigureEpr(e, index, ep_type, dev_addr),
                   mem |-> write_in(m, index, a.addr),
                   res |-> ResOk(Channel_new(index, a.addr, len, max_packet_size))]

convert_type(t) ==
    CASE t = "Bulk" -> "BULK"
      [] t = "Control" -> "CONTROL"
      [] t = "Interrupt" -> "INTERRUPT"
      [] t = "Isochronous" -> "ISO"

\* desc = [endpoint_address, max_packet_size, ep_type]
alloc_channel_in(d, e, m, desc) ==
    LET index == desc.endpoint_address - 128
    IN  IF index = 0 \/ index > EP_COUNT - 1
        THEN [drv |-> d, epr |-> e, mem |-> m, res |-> ResErr("InvalidIndex")]
        ELSE claim_channel_in(d, e, m, index, desc.max_packet_size,
                              convert_type(desc.ep_type), e[0].devaddr)

alloc_channel_out(d, e, m, desc) ==
    LET index == desc.endpoint_address
    IN  IF index = 0 \/ index > EP_COUNT - 1
        THEN [drv |-> d, epr |-> e, mem |-> m, res |-> ResErr("InvalidIndex")]
        ELSE claim_channel_out(d, e, m, index, desc.max_packet_size,
                               convert_type(desc.ep_type), e[0].devaddr)

reconfigure_channel0_no_reset(d, e, m, max_packet_size, dev_addr) ==
    LET ci == claim_channel_in(d, e, m, 0, max_packet_size, "CONTROL", dev_addr)
    IN  IF ~ci.res.ok
        THEN [drv |-> ci.drv, epr |-> ci.epr, mem |-> ci.mem, res |-> ci.res]
        ELSE LET d1 == [ci.drv EXCEPT !.control_channel_in = ci.res.chan]
                 co == claim_channel_out(d1, ci.epr, ci.mem, 0, max_packet_size,
                                         "CONTROL", dev_addr)
             IN  IF ~co.res.ok
                 THEN [drv |-> co.drv, epr |-> co.epr, mem |-> co.mem, res |-> co.res]
                 ELSE [drv |-> [co.drv EXCEPT !.control_channel_out = co.res.chan],
                       epr |-> co.epr, mem |-> co.mem,
                       res |-> ResOk(Channel_new(0, 0, 0, 0))]

\* [drv, epr, mem, res]: res is the call's result
reconfigure_channel0(d, e, m, max_packet_size, dev_addr) ==
    LET d0 == reset_alloc(d)
        ci == claim_channel_in(d0, e, m, 0, max_packet_size, "CONTROL", dev_addr)
    IN  IF ~ci.res.ok
        THEN [drv |-> ci.drv, epr |-> ci.epr, mem |-> ci.mem, res |-> ci.res]
        ELSE LET d1 == [ci.drv EXCEPT !.control_channel_in = ci.res.chan]
                 co == claim_channel_out(d1, ci.epr, ci.mem, 0, max_packet_size,
                                         "CONTROL", dev_addr)
             IN  IF ~co.res.ok
                 THEN [drv |-> co.drv, epr |-> co.epr, mem |-> co.mem, res |-> co.res]
                 ELSE [drv |-> [co.drv EXCEPT !.control_channel_out = co.res.chan],
                       epr |-> co.epr, mem |-> co.mem,
                       res |-> ResOk(Channel_new(0, 0, 0, 0))]

(***************************************************************************)
(* States of the parts that are at rest                                    *)
(***************************************************************************)
NoWaker == "none"

EprInit == [i \in Channels |-> EprReset]

IstrInit == [reset |-> FALSE, err |-> FALSE, sof |-> FALSE, dcon_stat |-> FALSE, ep_id |-> 0]

WakersInit ==
    [in |-> [i \in Channels |-> NoWaker], out |-> [i \in Channels |-> NoWaker],
     bus |-> NoWaker]

\* What a read of ISTR returns: the stored bits and CTR, which the controller
\* derives from the complete-flags of the channel registers.
IstrRead(s, e) ==
    [reset |-> s.reset, ctr |-> \E i \in Channels : e[i].ctr_rx \/ e[i].ctr_tx,
     err |-> s.err, sof |-> s.sof, dcon_stat |-> s.dcon_stat, ep_id |-> s.ep_id]

\* pc and the locals istr, int_cleared; and a record of the invocation in
\* progress kept for stating properties: the wakers on which wake() was
\* called, the value written to the channel register by the
\* transaction-complete branch, and the branches taken.
IsrIdle ==
    [pc |-> "idle", istr |-> IstrRead(IstrInit, EprInit), int_cleared |-> FALSE,
     woke |-> {}, wrote |-> EprReset, handled |-> {}]

\* The read in progress: pc, the channel, the caller's buffer, count, the
\* timeout option (-1: none), t0, the result and its value; and a record of the
\* run kept for stating properties: the lengths seen at Disabled polls (obs),
\* the payload bytes the controller delivered in those transactions (exp), the
\* number of re-arms, and the status the channel had when the operation
\* returned through disable() (was; -1 otherwise).
RdIdle ==
    [pc |-> "idle", chan |-> Channel_new(0, 0, 0, 0), buf |-> <<>>, count |-> 0,
     timeout_ms |-> -1, t0 |-> 0, res |-> "None", val |-> 0,
     obs |-> <<>>, exp |-> <<>>, rearms |-> 0, was |-> -1]

\* The write in progress, likewise; len is the length of the caller's buffer
WrIdle ==
    [pc |-> "idle", chan |-> Channel_new(0, 0, 0, 0), len |-> 0,
     timeout_ms |-> -1, t0 |-> 0, res |-> "None", was |-> -1]

\* packets received so far, and the payload of the last one
HwInit == [txn |-> 0, payload |-> <<>>]

\* last: the call, its arguments and result, the number of calls so far, and
\* three records of the run kept for stating properties: the (direction, index)
\* pairs claimed with success since the last reset_alloc, those whose claim
\* got past the in-use test since then, and those claimed with success before it.
\* before is the channel register before the last write of SpecEpr, since the
\* number of the call that reset the allocator last.
LastNone ==
    [op |-> "none", dir |-> "none", index |-> 0, mps |-> 0, res |-> ResErr("None"),
     n |-> 0, claimed |-> {}, tried |-> {}, prev |-> {}, before |-> EprReset,
     since |-> 0]

CalcIdle == [len |-> 0, done |-> FALSE, out |-> LenPanic]

EnvNone == [ep |-> 1]

\* The wait in progress: seen is the connect status its poll read from ISTR
WtIdle == [pc |-> "idle", seen |-> FALSE]

\* The control request in progress: kind is "out" or "in", stage the stage
\* being run, dlen the length of data (out) or dest (in), val the count of the
\* data-stage read, log the operations armed so far (kept for stating properties).
CtlIdle ==
    [pc |-> "idle", kind |-> "none", stage |-> "none", dlen |-> 0,
     res |-> "None", val |-> 0, log |-> <<>>]

(***************************************************************************)
(* SpecCalc: calc_receive_len_bits applied to every length 0..MaxCalcLen   *)
(***************************************************************************)
InitCalc ==
    /\ calc \in {[len |-> l, done |-> FALSE, out |-> LenPanic] : l \in 0 .. MaxCalcLen}
    /\ drv = DrvNew /\ handles = {} /\ epr = EprInit /\ istr = IstrInit
    /\ mem = <<>> /\ wakers = WakersInit /\ woken = {} /\ isr = IsrIdle
    /\ rd = RdIdle /\ wr = WrIdle /\ now = 0 /\ hw = HwInit /\ last = LastNone
    /\ env = EnvNone /\ ctl = CtlIdle /\ wt = WtIdle /\ panicked = FALSE

CalcApply ==
    /\ ~calc.done
    /\ calc' = [calc EXCEPT !.done = TRUE, !.out = calc_receive_len_bits(calc.len)]
    /\ panicked' = calc_receive_len_bits(calc.len).panic
    /\ UNCHANGED <<drv, handles, epr, istr, mem, wakers, woken, isr, rd, wr, now,
                   hw, last, ctl, wt, env>>

NextCalc == CalcApply

SpecCalc == InitCalc /\ [][NextCalc]_vars

\* C7: for every length L in 2..=1024 the code returned by calc_receive_len_bits
\* decodes, by the controller's rule, to exactly the returned actual_len, which
\* lies in L .. L+31; the block count fits in 5 bits and nothing else but the
\* flag is set; encoding actual_len again gives the same code; L <= 60 uses
\* 2-byte blocks without the flag and L >= 61 uses 32-byte blocks with it; a
\* length outside 2..=1024 yields no code (panic).
C7_LenBitsDecode ==
    calc.done =>
        LET l == calc.len
            o == calc.out
        IN  IF l >= 2 /\ l <= 1024
            THEN /\ ~o.panic
                 /\ ~panicked
                 /\ DecodeLenBits(o.len_bits) = o.actual_len
                 /\ l <= o.actual_len /\ o.actual_len <= l + 31
                 /\ o.len_bits \in 0 .. 65535
                 /\ o.len_bits % 1024 = 0
                 /\ calc_receive_len_bits(o.actual_len).len_bits = o.len_bits
                 /\ calc_receive_len_bits(o.actual_len).actual_len = o.actual_len
                 /\ l <= 60 => /\ o.len_bits < 32768
                               /\ o.actual_len \div 2 <= 31
                               /\ o.len_bits = (o.actual_len \div 2) * 1024
                 /\ l >= 61 => /\ o.len_bits >= 32768
                               /\ o.actual_len \div 32 - 1 <= 31
                               /\ o.len_bits = (o.actual_len \div 32 - 1) * 1024 + 32768
            ELSE o.panic /\ panicked

C7_Witness ==
    /\ calc.done /\ calc.len = 1024 /\ ~calc.out.panic
    /\ calc.out.actual_len = 1024 /\ calc.out.len_bits = 31 * 1024 + 32768

(***************************************************************************)
(* SpecAlloc: the public allocation calls, from the driver as constructed  *)
(***************************************************************************)
\* In each run the caller claims one endpoint number, env.ep, in both
\* directions; 0 and EP_COUNT are the two numbers the public calls reject.
InMpsChoices == {8, 1024}
OutMpsChoices == {8, 1024, 65532}
Ch0MpsChoices == {8, 64}
DevAddrChoices == {0, 1}

InDescs ==
    {[endpoint_address |-> 128 + env.ep, max_packet_size |-> s, ep_type |-> "Bulk"] :
        s \in InMpsChoices}

OutDescs ==
    {[endpoint_address |-> env.ep, max_packet_size |-> s, ep_type |-> "Interrupt"] :
        s \in OutMpsChoices}

InitAlloc ==
    /\ env \in {[ep |-> k] : k \in 0 .. EP_COUNT}
    /\ drv = DrvNew /\ handles = {} /\ epr = EprInit /\ istr = IstrInit
    /\ mem = <<>> /\ wakers = WakersInit /\ woken = {} /\ isr = IsrIdle
    /\ rd = RdIdle /\ wr = WrIdle /\ now = 0 /\ hw = HwInit /\ last = LastNone
    /\ calc = CalcIdle /\ ctl = CtlIdle /\ wt = WtIdle /\ panicked = FALSE

Alive(dir, index) == \E h \in handles : h.dir = dir /\ h.chan.index = index

\* The bookkeeping of a claim call of (dir, index) that returned r
AfterClaim(op, dir, index, mps, r) ==
    /\ last' = [last EXCEPT
            !.op = op, !.dir = dir, !.index = index, !.mps = mps, !.res = r.res,
            !.n = @ + 1,
            !.claimed = IF r.res.ok THEN @ \cup {<<dir, index>>} ELSE @,
            !.tried = IF r.res.err \in {"AlreadyInUse", "InvalidIndex"}
                      THEN @ ELSE @ \cup {<<dir, index>>}]
    /\ handles' = IF r.res.ok
                  THEN handles \cup {[dir |-> dir, id |-> last.n + 1, chan |-> r.res.chan]}
                  ELSE handles
    /\ drv' = r.drv /\ epr' = r.epr /\ mem' = r.mem
    /\ panicked' = r.res.panic

DoAllocChannelIn ==
    /\ ~panicked /\ last.n < MaxCalls
    /\ \E desc \in InDescs :
        AfterClaim("alloc_channel_in", "In", desc.endpoint_address - 128,
                   desc.max_packet_size, alloc_channel_in(drv, epr, mem, desc))
    /\ UNCHANGED <<istr, wakers, woken, isr, rd, wr, now, hw, calc, ctl, wt, env>>

DoAllocChannelOut ==
    /\ ~panicked /\ last.n < MaxCalls
    /\ \E desc \in OutDescs :
        AfterClaim("alloc_channel_out", "Out", desc.endpoint_address,
                   desc.max_packet_size, alloc_channel_out(drv, epr, mem, desc))
    /\ UNCHANGED <<istr, wakers, woken, isr, rd, wr, now, hw, calc, ctl, wt, env>>

DoReconfigureChannel0 ==
    /\ ~panicked /\ last.n < MaxCalls
    /\ \E s \in Ch0MpsChoices, a \in DevAddrChoices :
        LET r == reconfigure_channel0(drv, epr, mem, s, a)
        IN  /\ last' = [last EXCEPT
                    !.op = "reconfigure_channel0", !.dir = "both", !.index = 0,
                    !.mps = s, !.res = r.res, !.n = @ + 1,
                    !.claimed = (IF BitAnd(r.drv.channels_in_used, 1) # 0
                                    /\ r.drv.control_channel_in.len > 0
                                 THEN {<<"In", 0>>} ELSE {})
                                \cup (IF r.res.ok THEN {<<"Out", 0>>} ELSE {}),
                    !.tried = {<<"In", 0>>}
                              \cup (IF BitAnd(r.drv.channels_out_used, 1) # 0
                                    THEN {<<"Out", 0>>} ELSE {}),
                    !.prev = @ \cup last.claimed,
                    !.since = last.n + 1]
            /\ drv' = r.drv /\ epr' = r.epr /\ mem' = r.mem
            /\ panicked' = r.res.panic
    /\ UNCHANGED <<handles, istr, wakers, woken, isr, rd, wr, now, hw, calc, ctl, wt, env>>

\* A caller drops a Channel it holds: Channel has no Drop, nothing is released.
DropHandle ==
    /\ ~panicked
    /\ \E h \in handles : handles' = handles \ {h}
    /\ UNCHANGED <<drv, epr, istr, mem, wakers, woken, isr, rd, wr, now, hw, last,
                   calc, ctl, wt, env, panicked>>

NextAlloc ==
    \/ DoAllocChannelIn
    \/ DoAllocChannelOut
    \/ DoReconfigureChannel0
    \/ DropHandle

SpecAlloc == InitAlloc /\ [][NextAlloc]_vars

\* The length of the region a claim of direction dir asks for
RegionLen(dir, mps) ==
    IF dir = "In" THEN calc_receive_len_bits(mps).actual_len ELSE align_len_up(mps)

AllocOps == {"alloc_channel_in", "alloc_channel_out"}

\* C6: a claim of an (index, direction) pair already claimed since the last
\* reset fails, whether or not the earlier handle is still held (for 1..7 as
\* AlreadyInUse, leaving the driver as it was); the first claim of a pair after
\* a reset is not refused as in use: it succeeds whenever its region fits the
\* packet memory left, and the two claims of channel 0 inside
\* reconfigure_channel0 succeed whenever the two regions fit after the table.
C6_ClaimTwiceFailsResetFrees ==
    [][last'.n = last.n + 1 =>
        LET pair == <<last'.dir, last'.index>>
        IN  /\ (last'.op \in AllocOps /\ pair \in last.claimed) =>
                    /\ ~last'.res.ok
                    /\ last'.index \in 1 .. (EP_COUNT - 1) =>
                            last'.res.err = "AlreadyInUse" /\ drv' = drv
            /\ (/\ last'.op \in AllocOps
                /\ last'.index \in 1 .. (EP_COUNT - 1)
                /\ pair \notin last.tried
                /\ drv.ep_mem_free + RegionLen(last'.dir, last'.mps) <= USBRAM_SIZE)
                    => last'.res.ok
            /\ (/\ last'.op = "reconfigure_channel0"
                /\ EP_COUNT * 8 + RegionLen("In", last'.mps)
                     + RegionLen("Out", last'.mps) <= USBRAM_SIZE)
                    => /\ last'.res.ok
                       /\ last'.claimed = {<<"In", 0>>, <<"Out", 0>>}
    ]_vars

\* a pair claimed before a reset is claimed again with success after it
C6_Witness ==
    /\ last.op \in AllocOps /\ last.res.ok
    /\ <<last.dir, last.index>> \in last.prev
    /\ last.index = EP_COUNT - 1

(***************************************************************************)
(* Bounds of the transfer model                                            *)
(***************************************************************************)
MaxMps == 3             \* max packet sizes 2 .. MaxMps
MaxBuf == 4             \* caller buffers of 0 .. MaxBuf bytes for a read
MaxTime == 2            \* the clock runs from 0 to MaxTime milliseconds
MaxWrite == 5           \* caller buffers of 0 .. MaxWrite bytes for a write

\* TransferOptions::timeout_ms: None (-1) or Some(1)
TimeoutChoices == {-1, 1}

(***************************************************************************)
(* Endpoint buffer codec                                                   *)
(***************************************************************************)
to_le_bytes(w) == <<w.lo % 256, w.lo \div 256, w.hi % 256, w.hi \div 256>>

from_le_bytes(b) == Word(b[1] + 256 * b[2], b[3] + 256 * b[4])

\* EndpointBuffer::read into a slice of n bytes: the bytes stored in the slice
EndpointBuffer_read(m, chan, n) ==
    [j \in 1 .. n |->
        to_le_bytes(MemRead(m, chan.addr \div USBRAM_ALIGN + (j - 1) \div USBRAM_ALIGN))
            [((j - 1) % USBRAM_ALIGN) + 1]]

\* EndpointBuffer::write of the bytes buf: the packet memory afterwards
EndpointBuffer_write(m, chan, buf) ==
    LET nwords == (Len(buf) + USBRAM_ALIGN - 1) \div USBRAM_ALIGN
        base == chan.addr \div USBRAM_ALIGN
        val(i) == [k \in 1 .. USBRAM_ALIGN |->
                      IF i * USBRAM_ALIGN + k <= Len(buf)
                      THEN buf[i * USBRAM_ALIGN + k] ELSE 0]
    IN  [x \in (DOMAIN m) \cup {base + i : i \in 0 .. (nwords - 1)} |->
            IF x >= base /\ x < base + nwords
            THEN from_le_bytes(val(x - base)) ELSE m[x]]

(***************************************************************************)
(* Channel<In>, Channel<Out>: register helpers and data transfer           *)
(***************************************************************************)
In_activate_writes_valid(e) ==
    EprWrite(e, [invariant(e) EXCEPT !.stat_rx = VALID])

In_activate(e) ==
    EprWrite(e, [invariant(e) EXCEPT !.stat_rx = BitAnd(NotU8(e.stat_rx), 3)])

In_disable_keeps(e) == EprWrite(e, invariant(e))

In_disable(e) ==
    EprWrite(e, [invariant(e) EXCEPT !.stat_rx = e.stat_rx])

Out_activate(e) ==
    EprWrite(e, [invariant(e) EXCEPT !.stat_tx = BitAnd(NotU8(e.stat_tx), 3)])

Out_disable_keeps(e) == EprWrite(e, invariant(e))

Out_disable(e) ==
    EprWrite(e, [invariant(e) EXCEPT !.stat_tx = e.stat_tx])

read_data_unchecked(m, chan, space) ==
    LET rx_len == BitAnd(read_out_len(m, chan.index), 1023)
    IN  IF rx_len > chan.len
        THEN [ok |-> FALSE, panic |-> TRUE, n |-> rx_len, bytes |-> <<>>]
        ELSE [ok |-> TRUE, panic |-> FALSE, n |-> rx_len,
              bytes |-> EndpointBuffer_read(m, chan, rx_len)]

\* Channel<In>::read_data with `space` bytes left in the caller's buffer:
\* [ok, panic, n, bytes]; ok is false for BufferOverflow.
read_data(m, chan, space) ==
    LET rx_len == BitAnd(read_out_len(m, chan.index), 1023)
    IN  IF rx_len > space
        THEN [ok |-> FALSE, panic |-> FALSE, n |-> rx_len, bytes |-> <<>>]
        ELSE IF rx_len > chan.len
        THEN [ok |-> FALSE, panic |-> TRUE, n |-> rx_len, bytes |-> <<>>]
        ELSE [ok |-> TRUE, panic |-> FALSE, n |-> rx_len,
              bytes |-> EndpointBuffer_read(m, chan, rx_len)]

write_data_assert_after(m, chan, buf) ==
    [panic |-> Len(buf) > chan.len,
     mem |-> write_transmit_buffer_descriptor(EndpointBuffer_write(m, chan, buf),
                                             chan.index, chan.addr, U16(Len(buf)))]

\* Channel<Out>::write_data: [panic, mem]
write_data(m, chan, buf) ==
    IF Len(buf) > chan.len
    THEN [panic |-> TRUE, mem |-> m]
    ELSE [panic |-> FALSE,
          mem |-> write_transmit_buffer_descriptor(EndpointBuffer_write(m, chan, buf),
                                                  chan.index, chan.addr, U16(Len(buf)))]

(***************************************************************************)
(* Wakers (embassy_sync::waitqueue::AtomicWaker)                           *)
(***************************************************************************)
\* register: the slot holds the last registrant
AtomicWaker_register(slot, task) == task

AtomicWaker_wake_nobody(slot) == {}

\* wake: the tasks made ready by waking the slot's waker
AtomicWaker_wake(slot) == IF slot = NoWaker THEN {} ELSE {slot}

(***************************************************************************)
(* USBHostInterruptHandler::on_interrupt                                   *)
(***************************************************************************)
\* regs::Istr(!0) and regs::Istr(0), restricted to the write-0-to-clear bits
IstrAllOnes == [reset |-> TRUE, err |-> TRUE, sof |-> TRUE]
IstrAllZeros == [reset |-> FALSE, err |-> FALSE, sof |-> FALSE]

\* A write to ISTR: a written 0 clears a flag, a written 1 leaves it
IstrWrite(cur, w) ==
    [cur EXCEPT !.reset = @ /\ w.reset, !.err = @ /\ w.err, !.sof = @ /\ w.sof]

\* every interrupt source is unmasked by start()
InterruptPending ==
    LET r == IstrRead(istr, epr) IN r.reset \/ r.ctr \/ r.err \/ r.sof

on_interrupt_next_else_if(pc, taken) ==
    IF taken /\ pc # "ack" THEN "ack"
    ELSE CASE pc = "reset" -> "ctr" [] pc = "ctr" -> "err"
           [] pc = "err" -> "ack" [] pc = "ack" -> "idle"

\* The handler's branches follow one another whether or not one was taken
on_interrupt_next(pc, taken) ==
    CASE pc = "reset" -> "ctr" [] pc = "ctr" -> "err"
      [] pc = "err" -> "ack" [] pc = "ack" -> "idle"

on_interrupt_ctr_value_no_invariant(e) ==
    [e EXCEPT !.err_tx = IF e.err_tx THEN FALSE ELSE @,
              !.err_rx = IF e.err_rx THEN FALSE ELSE @,
              !.ctr_rx = ~e.ctr_rx,
              !.ctr_tx = ~e.ctr_tx]

\* The value the transaction-complete branch writes, from the value e it read
on_interrupt_ctr_value(e) ==
    [invariant(e) EXCEPT !.err_tx = IF e.err_tx THEN FALSE ELSE @,
                         !.err_rx = IF e.err_rx THEN FALSE ELSE @,
                         !.ctr_rx = ~e.ctr_rx,
                         !.ctr_tx = ~e.ctr_tx]

on_interrupt_err_value_status_read(e) ==
    [invariant(e) EXCEPT !.stat_rx = e.stat_rx, !.stat_tx = e.stat_tx]

\* The value the error branch writes: the status fields of the value already
\* passed through invariant() are set to themselves
on_interrupt_err_value(e) ==
    LET v == invariant(e) IN [v EXCEPT !.stat_rx = v.stat_rx, !.stat_tx = v.stat_tx]

xferFixed == <<drv, handles, last, calc, ctl, wt, env>>

\* let istr = regs.istr().read()
IsrEnter ==
    /\ ~panicked /\ isr.pc = "idle" /\ InterruptPending
    /\ isr' = [pc |-> "reset", istr |-> IstrRead(istr, epr), int_cleared |-> FALSE,
               woke |-> {}, wrote |-> EprReset, handled |-> {}]
    /\ UNCHANGED <<epr, istr, mem, wakers, woken, rd, wr, now, hw, panicked>>
    /\ UNCHANGED xferFixed

\* if istr.reset() { ... }
IsrReset ==
    /\ isr.pc = "reset"
    /\ IF isr.istr.reset
       THEN /\ istr' = IstrWrite(istr, [IstrAllOnes EXCEPT !.reset = FALSE])
            /\ woken' = woken \cup AtomicWaker_wake(wakers.bus)
            /\ isr' = [isr EXCEPT !.pc = on_interrupt_next("reset", TRUE),
                                  !.int_cleared = TRUE,
                                  !.handled = @ \cup {"reset"},
                                  !.woke = @ \cup {<<"bus", 0>>}]
       ELSE /\ isr' = [isr EXCEPT !.pc = on_interrupt_next("reset", FALSE)]
            /\ UNCHANGED <<istr, woken>>
    /\ UNCHANGED <<epr, mem, wakers, rd, wr, now, hw, panicked>>
    /\ UNCHANGED xferFixed

\* if istr.ctr() { ... }
IsrCtr ==
    /\ isr.pc = "ctr"
    /\ IF isr.istr.ctr
       THEN LET index == isr.istr.ep_id
                e == epr[index]
                epr_value == on_interrupt_ctr_value(e)
            IN  /\ epr' = [epr EXCEPT ![index] = EprWrite(e, epr_value)]
                /\ woken' = woken
                            \cup (IF e.ctr_rx THEN AtomicWaker_wake(wakers.in[index]) ELSE {})
                            \cup (IF e.ctr_tx THEN AtomicWaker_wake(wakers.out[index]) ELSE {})
                /\ isr' = [isr EXCEPT !.pc = on_interrupt_next("ctr", TRUE),
                                      !.int_cleared = TRUE,
                                      !.handled = @ \cup {"ctr"},
                                      !.wrote = epr_value,
                                      !.woke = @ \cup (IF e.ctr_rx THEN {<<"in", index>>} ELSE {})
                                                 \cup (IF e.ctr_tx THEN {<<"out", index>>} ELSE {})]
       ELSE /\ isr' = [isr EXCEPT !.pc = on_interrupt_next("ctr", FALSE)]
            /\ UNCHANGED <<epr, woken>>
    /\ UNCHANGED <<istr, mem, wakers, rd, wr, now, hw, panicked>>
    /\ UNCHANGED xferFixed

\* if istr.err() { ... }
IsrErr ==
    /\ isr.pc = "err"
    /\ IF isr.istr.err
       THEN LET index == isr.istr.ep_id
            IN  /\ istr' = IstrWrite(IstrWrite(istr, IstrAllOnes),
                                     [IstrAllOnes EXCEPT !.err = FALSE])
                /\ epr' = [epr EXCEPT ![index] = EprWrite(@, on_interrupt_err_value(@))]
                /\ isr' = [isr EXCEPT !.pc = on_interrupt_next("err", TRUE),
                                      !.int_cleared = TRUE,
                                      !.handled = @ \cup {"err"}]
       ELSE /\ isr' = [isr EXCEPT !.pc = on_interrupt_next("err", FALSE)]
            /\ UNCHANGED <<istr, epr>>
    /\ UNCHANGED <<mem, wakers, woken, rd, wr, now, hw, panicked>>
    /\ UNCHANGED xferFixed

\* if int_cleared == false { ... }, and the return
IsrAck ==
    /\ isr.pc = "ack"
    /\ istr' = IF isr.int_cleared THEN istr ELSE IstrWrite(istr, IstrAllZeros)
    /\ isr' = IsrIdle
    /\ UNCHANGED <<epr, mem, wakers, woken, rd, wr, now, hw, panicked>>
    /\ UNCHANGED xferFixed

(***************************************************************************)
(* Channel<In>::read                                                       *)
(***************************************************************************)
\* The caller has claimed its endpoint in both directions: transfers may begin
Opened == last.op = "alloc_channel_out"

\* self.activate(); count = 0; t0 = Instant::now()
read_begin(chan, B, t) ==
    /\ epr' = [epr EXCEPT ![chan.index] = In_activate(@)]
    /\ rd' = [RdIdle EXCEPT !.pc = "poll", !.chan = chan,
                            !.buf = [j \in 1 .. B |-> 0],
                            !.timeout_ms = t, !.t0 = now]

\* The caller starts a read on its In channel
ReadStart ==
    /\ ~panicked /\ isr.pc = "idle" /\ rd.pc = "idle" /\ Opened
    /\ \E h \in handles, B \in env.bufs, t \in env.timeouts :
        /\ h.dir = "In"
        /\ read_begin(h.chan, B, t)
    /\ UNCHANGED <<istr, mem, wakers, woken, isr, wr, now, hw, panicked>>
    /\ UNCHANGED xferFixed

ReadRegister_no_register ==
    /\ ~panicked /\ isr.pc = "idle" /\ rd.pc \in {"poll", "pending"}
    /\ woken' = woken \ {"rd"}
    /\ rd' = [rd EXCEPT !.pc = "bus"]
    /\ UNCHANGED <<epr, istr, mem, wakers, isr, wr, now, hw, panicked>>
    /\ UNCHANGED xferFixed

\* A poll begins: EP_IN_WAKERS[index].register(cx.waker())
ReadRegister ==
    /\ ~panicked /\ isr.pc = "idle" /\ rd.pc \in {"poll", "pending"}
    /\ wakers' = [wakers EXCEPT !.in[rd.chan.index] = AtomicWaker_register(@, "rd")]
    /\ woken' = woken \ {"rd"}
    /\ rd' = [rd EXCEPT !.pc = "bus"]
    /\ UNCHANGED <<epr, istr, mem, isr, wr, now, hw, panicked>>
    /\ UNCHANGED xferFixed

\* The disconnect test and the timeout test of a poll
ReadCheckBus ==
    /\ ~panicked /\ isr.pc = "idle" /\ rd.pc = "bus"
    /\ LET index == rd.chan.index
       IN  IF ~IstrRead(istr, epr).dcon_stat
           THEN /\ epr' = [epr EXCEPT ![index] = In_disable(@)]
                /\ rd' = [rd EXCEPT !.pc = "done", !.res = "Disconnected",
                                    !.was = epr[index].stat_rx]
           ELSE IF rd.timeout_ms # -1 /\ now - rd.t0 > rd.timeout_ms
           THEN /\ epr' = [epr EXCEPT ![index] = In_disable(@)]
                /\ rd' = [rd EXCEPT !.pc = "done", !.res = "Timeout",
                                    !.was = epr[index].stat_rx]
           ELSE /\ rd' = [rd EXCEPT !.pc = "stat"]
                /\ UNCHANGED epr
    /\ UNCHANGED <<istr, mem, wakers, woken, isr, wr, now, hw, panicked>>
    /\ UNCHANGED xferFixed

read_is_done_ignores_short(count, len, n, max_packet_size) == count = len

\* count == buf.len() || n < self.max_packet_size
read_is_done(count, len, n, max_packet_size) == count = len \/ n < max_packet_size

\* match self.reg().read().stat_rx()
ReadStatus ==
    /\ ~panicked /\ isr.pc = "idle" /\ rd.pc = "stat"
    /\ LET index == rd.chan.index
           stat == epr[index].stat_rx
           r == read_data(mem, rd.chan, Len(rd.buf) - rd.count)
           count == rd.count + r.n
           seen == [rd EXCEPT !.obs = Append(@, r.n), !.exp = @ \o hw.payload]
       IN  IF stat = DISABLED
           THEN IF r.panic
                THEN /\ panicked' = TRUE
                     /\ rd' = [seen EXCEPT !.pc = "done", !.res = "Panic"]
                     /\ UNCHANGED epr
                ELSE IF ~r.ok
                THEN /\ rd' = [seen EXCEPT !.pc = "done", !.res = "BufferOverflow"]
                     /\ UNCHANGED <<epr, panicked>>
                ELSE LET buf == [j \in 1 .. Len(rd.buf) |->
                                    IF j > rd.count /\ j <= count
                                    THEN r.bytes[j - rd.count] ELSE rd.buf[j]]
                     IN  IF read_is_done(count, Len(rd.buf), r.n, rd.chan.max_packet_size)
                         THEN /\ rd' = [seen EXCEPT !.pc = "done", !.res = "Ok",
                                                    !.val = count, !.buf = buf,
                                                    !.count = count]
                              /\ UNCHANGED <<epr, panicked>>
                         ELSE /\ epr' = [epr EXCEPT ![index] = In_activate(@)]
                              /\ rd' = [seen EXCEPT !.pc = "pending", !.buf = buf,
                                                    !.count = count, !.rearms = @ + 1]
                              /\ UNCHANGED panicked
           ELSE IF stat = STALL
           THEN /\ rd' = [rd EXCEPT !.pc = "done", !.res = "Stall"]
                /\ UNCHANGED <<epr, panicked>>
           ELSE /\ rd' = [rd EXCEPT !.pc = "pending"]
                /\ UNCHANGED <<epr, panicked>>
    /\ UNCHANGED <<istr, mem, wakers, woken, isr, wr, now, hw>>
    /\ UNCHANGED xferFixed

(***************************************************************************)
(* Channel<Out>::write                                                     *)
(***************************************************************************)
\* self.write_data(buf); self.activate(); t0 = Instant::now()
write_begin(chan, L, t) ==
    LET wd == write_data(mem, chan, [j \in 1 .. L |-> j])
    IN  /\ mem' = wd.mem
        /\ panicked' = wd.panic
        /\ epr' = IF wd.panic THEN epr
                  ELSE [epr EXCEPT ![chan.index] = Out_activate(@)]
        /\ wr' = [WrIdle EXCEPT !.pc = IF wd.panic THEN "done" ELSE "poll",
                                !.res = IF wd.panic THEN "Panic" ELSE "None",
                                !.chan = chan, !.len = L,
                                !.timeout_ms = t, !.t0 = now]

\* The caller starts a write on its Out channel
WriteStart ==
    /\ ~panicked /\ isr.pc = "idle" /\ wr.pc = "idle" /\ Opened
    /\ \E h \in handles, L \in env.lens, t \in env.timeouts :
        /\ h.dir = "Out"
        /\ write_begin(h.chan, L, t)
    /\ UNCHANGED <<istr, wakers, woken, isr, rd, now, hw>>
    /\ UNCHANGED xferFixed

\* A poll begins: EP_OUT_WAKERS[index].register(cx.waker())
WriteRegister ==
    /\ ~panicked /\ isr.pc = "idle" /\ wr.pc \in {"poll", "pending"}
    /\ wakers' = [wakers EXCEPT !.out[wr.chan.index] = AtomicWaker_register(@, "wr")]
    /\ woken' = woken \ {"wr"}
    /\ wr' = [wr EXCEPT !.pc = "bus"]
    /\ UNCHANGED <<epr, istr, mem, isr, rd, now, hw, panicked>>
    /\ UNCHANGED xferFixed

WriteCheckBus_timeout_first ==
    /\ ~panicked /\ isr.pc = "idle" /\ wr.pc = "bus"
    /\ LET index == wr.chan.index
       IN  IF wr.timeout_ms # -1 /\ now - wr.t0 > wr.timeout_ms
           THEN /\ epr' = [epr EXCEPT ![index] = Out_disable(@)]
                /\ wr' = [wr EXCEPT !.pc = "done", !.res = "Timeout",
                                    !.was = epr[index].stat_tx]
           ELSE IF ~IstrRead(istr, epr).dcon_stat
           THEN /\ epr' = [epr EXCEPT ![index] = Out_disable(@)]
                /\ wr' = [wr EXCEPT !.pc = "done", !.res = "Disconnected",
                                    !.was = epr[index].stat_tx]
           ELSE /\ wr' = [wr EXCEPT !.pc = "stat"]
                /\ UNCHANGED epr
    /\ UNCHANGED <<istr, mem, wakers, woken, isr, rd, now, hw, panicked>>
    /\ UNCHANGED xferFixed

\* The disconnect test and the timeout test of a poll
WriteCheckBus ==
    /\ ~panicked /\ isr.pc = "idle" /\ wr.pc = "bus"
    /\ LET index == wr.chan.index
       IN  IF ~IstrRead(istr, epr).dcon_stat
           THEN /\ epr' = [epr EXCEPT ![index] = Out_disable(@)]
                /\ wr' = [wr EXCEPT !.pc = "done", !.res = "Disconnected",
                                    !.was = epr[index].stat_tx]
           ELSE IF wr.timeout_ms # -1 /\ now - wr.t0 > wr.timeout_ms
           THEN /\ epr' = [epr EXCEPT ![index] = Out_disable(@)]
                /\ wr' = [wr EXCEPT !.pc = "done", !.res = "Timeout",
                                    !.was = epr[index].stat_tx]
           ELSE /\ wr' = [wr EXCEPT !.pc = "stat"]
                /\ UNCHANGED epr
    /\ UNCHANGED <<istr, mem, wakers, woken, isr, rd, now, hw, panicked>>
    /\ UNCHANGED xferFixed

WriteStatus_stall_disables ==
    /\ ~panicked /\ isr.pc = "idle" /\ wr.pc = "stat"
    /\ LET stat == epr[wr.chan.index].stat_tx
       IN  /\ wr' = IF stat = DISABLED THEN [wr EXCEPT !.pc = "done", !.res = "Ok"]
                    ELSE IF stat = STALL THEN [wr EXCEPT !.pc = "done", !.res = "Stall"]
                    ELSE [wr EXCEPT !.pc = "pending"]
           /\ epr' = IF stat = STALL THEN [epr EXCEPT ![wr.chan.index] = Out_disable(@)]
                     ELSE epr
    /\ UNCHANGED <<istr, mem, wakers, woken, isr, rd, now, hw, panicked>>
    /\ UNCHANGED xferFixed

\* match self.reg().read().stat_tx()
WriteStatus ==
    /\ ~panicked /\ isr.pc = "idle" /\ wr.pc = "stat"
    /\ LET stat == epr[wr.chan.index].stat_tx
       IN  wr' = IF stat = DISABLED THEN [wr EXCEPT !.pc = "done", !.res = "Ok"]
                 ELSE IF stat = STALL THEN [wr EXCEPT !.pc = "done", !.res = "Stall"]
                 ELSE [wr EXCEPT !.pc = "pending"]
    /\ UNCHANGED <<epr, istr, mem, wakers, woken, isr, rd, now, hw, panicked>>
    /\ UNCHANGED xferFixed

(***************************************************************************)
(* The controller and the bus, as the driver's code expects them           *)
(***************************************************************************)
\* byte j of the t-th packet a device sends
PayloadByte(t, j) == (16 * t + j) % 256

\* The In channels in use: those held by callers and the driver's own channel 0
InChannels ==
    {h.chan : h \in {x \in handles : x.dir = "In"}}
    \cup (IF drv.control_channel_in.len > 0 THEN {drv.control_channel_in} ELSE {})

\* An In transaction completes with n bytes of data: the bytes and their count
\* are stored through the receive descriptor, receive-status becomes Disabled,
\* the data toggle flips and receive-complete is raised.
HwRxData ==
    /\ ~panicked /\ istr.dcon_stat
    /\ \E i \in Channels, n \in 0 .. MaxMps :
        /\ epr[i].stat_rx = VALID
        /\ \E c \in InChannels : c.index = i /\ n <= c.max_packet_size
        /\ LET d == MemRead(mem, i * 2 + 1)
               payload == [j \in 1 .. n |-> PayloadByte(hw.txn + 1, j)]
               m1 == EndpointBuffer_write(mem, [addr |-> d.lo], payload)
           IN  /\ mem' = MemWrite(m1, i * 2 + 1,
                                  Word(d.lo, BitOr(BitAnd(d.hi, 64512), n)))
               /\ hw' = [txn |-> hw.txn + 1, payload |-> payload]
        /\ epr' = [epr EXCEPT ![i].stat_rx = DISABLED, ![i].ctr_rx = TRUE,
                              ![i].dtog_rx = ~@]
        /\ istr' = [istr EXCEPT !.ep_id = i]
    /\ UNCHANGED <<wakers, woken, isr, rd, wr, now, panicked>>
    /\ UNCHANGED xferFixed

\* The device answers an In token with NAK or STALL
HwRxRefused ==
    /\ ~panicked /\ istr.dcon_stat
    /\ \E i \in Channels, s \in {NAK, STALL} :
        /\ epr[i].stat_rx = VALID
        /\ epr' = [epr EXCEPT ![i].stat_rx = s, ![i].ctr_rx = TRUE]
        /\ istr' = [istr EXCEPT !.ep_id = i]
    /\ UNCHANGED <<mem, wakers, woken, isr, rd, wr, now, hw, panicked>>
    /\ UNCHANGED xferFixed

\* The device acknowledges the data of an Out transaction
HwTxAck ==
    /\ ~panicked /\ istr.dcon_stat
    /\ \E i \in Channels :
        /\ epr[i].stat_tx = VALID
        /\ epr' = [epr EXCEPT ![i].stat_tx = DISABLED, ![i].ctr_tx = TRUE,
                              ![i].dtog_tx = ~@]
        /\ istr' = [istr EXCEPT !.ep_id = i]
    /\ UNCHANGED <<mem, wakers, woken, isr, rd, wr, now, hw, panicked>>
    /\ UNCHANGED xferFixed

\* The device answers the data of an Out transaction with NAK or STALL
HwTxRefused ==
    /\ ~panicked /\ istr.dcon_stat
    /\ \E i \in Channels, s \in {NAK, STALL} :
        /\ epr[i].stat_tx = VALID
        /\ epr' = [epr EXCEPT ![i].stat_tx = s, ![i].ctr_tx = TRUE]
        /\ istr' = [istr EXCEPT !.ep_id = i]
    /\ UNCHANGED <<mem, wakers, woken, isr, rd, wr, now, hw, panicked>>
    /\ UNCHANGED xferFixed

\* A transaction of an armed channel fails on the bus
HwError ==
    /\ ~panicked /\ istr.dcon_stat /\ ~istr.err
    /\ \E i \in Channels :
        /\ epr[i].stat_rx = VALID \/ epr[i].stat_tx = VALID
        /\ istr' = [istr EXCEPT !.err = TRUE, !.ep_id = i]
    /\ UNCHANGED <<epr, mem, wakers, woken, isr, rd, wr, now, hw, panicked>>
    /\ UNCHANGED xferFixed

\* The device is unplugged
HwDisconnect ==
    /\ ~panicked /\ istr.dcon_stat
    /\ istr' = [istr EXCEPT !.dcon_stat = FALSE, !.reset = TRUE]
    /\ UNCHANGED <<epr, mem, wakers, woken, isr, rd, wr, now, hw, panicked>>
    /\ UNCHANGED xferFixed

\* A frame starts (the runs with env.sof follow the start-of-frame interrupts)
HwSof ==
    /\ ~panicked /\ env.sof /\ ~istr.sof
    /\ istr' = [istr EXCEPT !.sof = TRUE]
    /\ UNCHANGED <<epr, mem, wakers, woken, isr, rd, wr, now, hw, panicked>>
    /\ UNCHANGED xferFixed

\* An operation that was given a timeout is in flight
Timed ==
    \/ rd.pc \notin {"idle", "done"} /\ rd.timeout_ms # -1
    \/ wr.pc \notin {"idle", "done"} /\ wr.timeout_ms # -1

\* A millisecond passes; the clock is read only by operations given a timeout
Tick ==
    /\ ~panicked /\ now < MaxTime /\ Timed
    /\ now' = now + 1
    /\ UNCHANGED <<epr, istr, mem, wakers, woken, isr, rd, wr, hw, panicked>>
    /\ UNCHANGED xferFixed

(***************************************************************************)
(* Spec: the driver is started, an endpoint is claimed in both directions, *)
(* then one read and one write run with the interrupt handler and the      *)
(* controller                                                              *)
(***************************************************************************)
\* The runs: what the caller uses in a run.  A read into a buffer of any
\* length at any max packet size; a write of any length; a read and a write
\* together, without timeouts.  The run of the write follows the start-of-frame
\* interrupts as well (sof).
Runs ==
    {[ep |-> EnvNone.ep, mps |-> s, bufs |-> 0 .. MaxBuf, lens |-> {},
      timeouts |-> TimeoutChoices, sof |-> FALSE] : s \in 2 .. MaxMps}
    \cup
    {[ep |-> EnvNone.ep, mps |-> MaxMps, bufs |-> {}, lens |-> 0 .. MaxWrite,
      timeouts |-> TimeoutChoices, sof |-> TRUE],
     [ep |-> EnvNone.ep, mps |-> MaxMps, bufs |-> {MaxBuf}, lens |-> {1, MaxWrite},
      timeouts |-> {-1}, sof |-> FALSE]}

\* The driver as constructed, with a device attached
Init ==
    /\ env \in Runs
    /\ drv = DrvNew /\ handles = {} /\ epr = EprInit /\ mem = <<>>
    /\ istr = [IstrInit EXCEPT !.dcon_stat = TRUE]
    /\ wakers = WakersInit /\ woken = {} /\ isr = IsrIdle
    /\ rd = RdIdle /\ wr = WrIdle /\ now = 0 /\ hw = HwInit /\ last = LastNone
    /\ calc = CalcIdle /\ ctl = CtlIdle /\ wt = WtIdle /\ panicked = FALSE

\* USBHostDriver::start, which ends with reconfigure_channel0(8, 0)
Start ==
    /\ ~panicked /\ isr.pc = "idle" /\ last.op = "none"
    /\ LET r == reconfigure_channel0(drv, epr, mem, 8, 0)
       IN  /\ drv' = r.drv /\ epr' = r.epr /\ mem' = r.mem
           /\ panicked' = r.res.panic
           /\ last' = [last EXCEPT !.op = "start", !.res = r.res]
    /\ UNCHANGED <<handles, istr, wakers, woken, isr, rd, wr, now, hw, calc, ctl, wt, env>>

\* The caller claims its endpoint for reception: alloc_channel_in
OpenIn ==
    /\ ~panicked /\ isr.pc = "idle" /\ last.op = "start"
    /\ LET r == alloc_channel_in(drv, epr, mem,
                    [endpoint_address |-> 128 + env.ep, max_packet_size |-> env.mps,
                     ep_type |-> "Bulk"])
       IN  /\ drv' = r.drv /\ epr' = r.epr /\ mem' = r.mem
           /\ panicked' = r.res.panic
           /\ handles' = IF r.res.ok
                         THEN handles \cup {[dir |-> "In", id |-> 1, chan |-> r.res.chan]}
                         ELSE handles
           /\ last' = [last EXCEPT !.op = "alloc_channel_in", !.res = r.res]
    /\ UNCHANGED <<istr, wakers, woken, isr, rd, wr, now, hw, calc, ctl, wt, env>>

\* ... and for transmission: alloc_channel_out
OpenOut ==
    /\ ~panicked /\ isr.pc = "idle" /\ last.op = "alloc_channel_in"
    /\ LET r == alloc_channel_out(drv, epr, mem,
                    [endpoint_address |-> env.ep, max_packet_size |-> env.mps,
                     ep_type |-> "Bulk"])
       IN  /\ drv' = r.drv /\ epr' = r.epr /\ mem' = r.mem
           /\ panicked' = r.res.panic
           /\ handles' = IF r.res.ok
                         THEN handles \cup {[dir |-> "Out", id |-> 2, chan |-> r.res.chan]}
                         ELSE handles
           /\ last' = [last EXCEPT !.op = "alloc_channel_out", !.res = r.res]
    /\ UNCHANGED <<istr, wakers, woken, isr, rd, wr, now, hw, calc, ctl, wt, env>>

Next ==
    \/ Start
    \/ OpenIn
    \/ OpenOut
    \/ ReadStart
    \/ ReadRegister
    \/ ReadCheckBus
    \/ ReadStatus
    \/ WriteStart
    \/ WriteRegister
    \/ WriteCheckBus
    \/ WriteStatus
    \/ IsrEnter
    \/ IsrReset
    \/ IsrCtr
    \/ IsrErr
    \/ IsrAck
    \/ HwRxData
    \/ HwRxRefused
    \/ HwTxAck
    \/ HwTxRefused
    \/ HwError
    \/ HwDisconnect
    \/ HwSof
    \/ Tick

Spec == Init /\ [][Next]_vars

(***************************************************************************)
(* SpecLive: the run of the write, under fair scheduling                   *)
(***************************************************************************)
InitLive == Init /\ env.bufs = {}

NextLive ==
    \/ Start
    \/ OpenIn
    \/ OpenOut
    \/ WriteStart
    \/ WriteRegister
    \/ WriteCheckBus
    \/ WriteStatus
    \/ IsrEnter
    \/ IsrReset
    \/ IsrCtr
    \/ IsrErr
    \/ IsrAck
    \/ HwTxAck
    \/ HwTxRefused
    \/ HwError
    \/ HwDisconnect
    \/ HwSof
    \/ Tick

\* The interrupt handler runs when an interrupt is pending and runs to its
\* end; the task is polled when it was started or woken and its poll runs to
\* its end, however often interrupts come in between; frames keep starting and
\* time passes.  Nothing obliges the device to answer, and a task that was not
\* woken need not be polled.
Fairness ==
    /\ WF_vars(IsrEnter) /\ WF_vars(IsrReset) /\ WF_vars(IsrCtr)
    /\ WF_vars(IsrErr) /\ WF_vars(IsrAck)
    /\ SF_vars(WriteRegister /\ (wr.pc = "poll" \/ "wr" \in woken))
    /\ SF_vars(WriteCheckBus) /\ SF_vars(WriteStatus)
    /\ WF_vars(HwSof) /\ WF_vars(Tick)

SpecLive == InitLive /\ [][NextLive]_vars /\ Fairness

(***************************************************************************)
(* Properties of the interrupt handler                                     *)
(***************************************************************************)
\* the step of the handler that leaves branch b
IsrLeaves(b) == isr.pc = b /\ isr'.pc # b

\* C5: in an invocation that read transaction-complete for channel i, wake()
\* is called on the In waker of i iff receive-complete of register i was
\* asserted and on the Out waker iff transmit-complete was; the one register
\* write carries 0 for exactly the asserted complete-flags, 1 for a flag not
\* asserted and 0 for both statuses and both toggles, so that the register
\* afterwards differs from before only in the asserted flags, now clear.
C5_CtrBranchWakesAndClears ==
    [][(IsrLeaves("ctr") /\ isr.istr.ctr) =>
        LET i == isr.istr.ep_id
            e == epr[i]
        IN  /\ (<<"in", i>> \in isr'.woke) <=> e.ctr_rx
            /\ (<<"out", i>> \in isr'.woke) <=> e.ctr_tx
            /\ woken' = woken \cup (IF e.ctr_rx THEN AtomicWaker_wake(wakers.in[i]) ELSE {})
                              \cup (IF e.ctr_tx THEN AtomicWaker_wake(wakers.out[i]) ELSE {})
            /\ isr'.wrote.ctr_rx = ~e.ctr_rx
            /\ isr'.wrote.ctr_tx = ~e.ctr_tx
            /\ isr'.wrote.stat_rx = 0 /\ isr'.wrote.stat_tx = 0
            /\ ~isr'.wrote.dtog_rx /\ ~isr'.wrote.dtog_tx
            /\ epr' = [epr EXCEPT ![i].ctr_rx = FALSE, ![i].ctr_tx = FALSE]
    ]_vars

\* both flags were asserted together: both waiters woken, both flags cleared,
\* status and toggle of the finished transactions still in place
C5_Witness ==
    /\ isr.pc = "err" /\ "ctr" \in isr.handled
    /\ {<<"in", env.ep>>, <<"out", env.ep>>} \subseteq isr.woke
    /\ {"rd", "wr"} \subseteq woken
    /\ ~epr[env.ep].ctr_rx /\ ~epr[env.ep].ctr_tx
    /\ epr[env.ep].dtog_rx /\ epr[env.ep].stat_tx = NAK

\* the condition classes asserted in the interrupt status the handler read
Asserted(r) ==
    (IF r.reset THEN {"reset"} ELSE {}) \cup (IF r.ctr THEN {"ctr"} ELSE {})
        \cup (IF r.err THEN {"err"} ELSE {})

\* C9: one invocation handles every condition class asserted in the interrupt
\* status it read: if reset was asserted it clears the reset condition and
\* wakes the bus waiter; if transaction-complete was, it clears the asserted
\* complete-flags of the indicated channel and wakes their waiters; if error
\* was, it clears the error condition; and when it returns, the branches it
\* took are exactly the classes that were asserted.
C9_AllClassesHandled ==
    [][/\ (IsrLeaves("reset") /\ isr.istr.reset) =>
            /\ ~istr'.reset
            /\ <<"bus", 0>> \in isr'.woke
            /\ AtomicWaker_wake(wakers.bus) \subseteq woken'
       /\ (IsrLeaves("ctr") /\ isr.istr.ctr) =>
            LET i == isr.istr.ep_id
            IN  /\ ~epr'[i].ctr_rx /\ ~epr'[i].ctr_tx
                /\ epr[i].ctr_rx => /\ <<"in", i>> \in isr'.woke
                                    /\ AtomicWaker_wake(wakers.in[i]) \subseteq woken'
                /\ epr[i].ctr_tx => /\ <<"out", i>> \in isr'.woke
                                    /\ AtomicWaker_wake(wakers.out[i]) \subseteq woken'
       /\ (IsrLeaves("err") /\ isr.istr.err) => ~istr'.err
       /\ (IsrLeaves("ack") /\ isr'.pc = "idle") => isr.handled = Asserted(isr.istr)
    ]_vars

\* an invocation that found all three classes asserted is about to return
C9_Witness ==
    /\ isr.pc = "ack" /\ isr.istr.reset /\ isr.istr.ctr /\ isr.istr.err
    /\ isr.handled = {"reset", "ctr", "err"}
    /\ ~istr.reset /\ ~istr.err /\ <<"bus", 0>> \in isr.woke
    /\ isr.woke \cap {<<"in", env.ep>>, <<"out", env.ep>>} # {}

(***************************************************************************)
(* Properties of read and write                                            *)
(***************************************************************************)
RECURSIVE SumSeq(_)
SumSeq(q) == IF q = <<>> THEN 0 ELSE Head(q) + SumSeq(Tail(q))

\* n1 + ... + nj of the lengths the read has seen
SeenUpTo(j) == SumSeq(SubSeq(rd.obs, 1, j))

\* transaction j is one at which the read is to finish
Finishes(j) == rd.obs[j] < rd.chan.max_packet_size \/ SeenUpTo(j) = Len(rd.buf)

\* the payload of transaction j fits the space left in the caller's buffer
Fits(j) == SeenUpTo(j) <= Len(rd.buf)

\* the first n bytes of the caller's buffer are the payloads delivered, back
\* to back, and the bytes after them are as the caller passed them
Stored(n) ==
    /\ \A j \in 1 .. n : rd.buf[j] = rd.exp[j]
    /\ \A j \in (n + 1) .. Len(rd.buf) : rd.buf[j] = 0

\* the read ended for a reason other than its transactions' lengths
ReadCutShort == rd.res \in {"Disconnected", "Timeout", "Stall"}

\* C1 as stated: the read continues, with one re-arm per transaction, until
\* the first transaction k with nk < M or n1+...+nk = B, and there returns
\* Ok(n1+...+nk) with the payloads back to back and no further re-arm.
C1_ReadFinishesAtFirstShortOrFull ==
    (rd.pc # "idle" /\ ~ReadCutShort) =>
        LET k == Len(rd.obs)
        IN  /\ \A j \in 1 .. (k - 1) : ~Finishes(j)
            /\ (k >= 1 /\ Finishes(k)) =>
                    /\ rd.pc = "done" /\ rd.res = "Ok" /\ rd.val = SeenUpTo(k)
                    /\ Stored(SeenUpTo(k))
                    /\ rd.rearms = k - 1
                    /\ epr[rd.chan.index].stat_rx = DISABLED
            /\ (k = 0 \/ ~Finishes(k)) => rd.pc # "done" /\ rd.rearms = k

\* C1, amended: the same provided every payload fits the space left in the
\* buffer, B - (n1+...+n(k-1)); at the first transaction whose payload does not
\* fit the read returns Err(BufferOverflow) instead, with the earlier payloads
\* stored and without re-arming.
C1_ReadFinishesOrOverflows ==
    (rd.pc # "idle" /\ ~ReadCutShort) =>
        LET k == Len(rd.obs)
        IN  /\ \A j \in 1 .. (k - 1) : ~Finishes(j) /\ Fits(j)
            /\ Len(rd.exp) = SeenUpTo(k)
            /\ (k >= 1 /\ Fits(k) /\ Finishes(k)) =>
                    /\ rd.pc = "done" /\ rd.res = "Ok" /\ rd.val = SeenUpTo(k)
                    /\ Stored(SeenUpTo(k))
                    /\ rd.rearms = k - 1
                    /\ epr[rd.chan.index].stat_rx = DISABLED
            /\ (k >= 1 /\ ~Fits(k)) =>
                    /\ rd.pc = "done" /\ rd.res = "BufferOverflow"
                    /\ Stored(SeenUpTo(k - 1))
                    /\ rd.rearms = k - 1
                    /\ epr[rd.chan.index].stat_rx = DISABLED
            /\ (k = 0 \/ (Fits(k) /\ ~Finishes(k))) =>
                    /\ rd.pc # "done" /\ rd.rearms = k
                    /\ Stored(SeenUpTo(k))

\* a full packet, a re-arm, then a short packet that leaves room in the buffer
C1_Witness ==
    /\ rd.pc = "done" /\ rd.res = "Ok" /\ Len(rd.obs) = 2
    /\ rd.obs[1] = rd.chan.max_packet_size /\ rd.obs[2] = 1
    /\ rd.val = rd.chan.max_packet_size + 1 /\ rd.val < Len(rd.buf)
    /\ rd.rearms = 1 /\ rd.buf[rd.val] = PayloadByte(2, 1)

\* C2: a poll of a read or of a write that finds the device disconnected
\* returns Err(Disconnected), whatever the channel's status is then, and the
\* channel's own status is Disabled when it returns.
C2_DisconnectedPollDisables ==
    [][/\ (rd.pc = "bus" /\ rd' # rd /\ ~istr.dcon_stat) =>
            /\ rd'.pc = "done" /\ rd'.res = "Disconnected"
            /\ epr'[rd.chan.index].stat_rx = DISABLED
       /\ (wr.pc = "bus" /\ wr' # wr /\ ~istr.dcon_stat) =>
            /\ wr'.pc = "done" /\ wr'.res = "Disconnected"
            /\ epr'[wr.chan.index].stat_tx = DISABLED
    ]_vars

\* a read that had re-armed and was armed, and a write whose status was Nak,
\* both returned Disconnected
C2_Witness ==
    /\ rd.pc = "done" /\ rd.res = "Disconnected" /\ rd.was = VALID /\ rd.rearms = 1
    /\ wr.pc = "done" /\ wr.res = "Disconnected" /\ wr.was = NAK
    /\ epr[env.ep].stat_rx = DISABLED /\ epr[env.ep].stat_tx = DISABLED

C8_OversizeWriteChangesNothing ==
    [][(wr.pc = "idle" /\ wr'.pc # "idle" /\ wr'.len > wr'.chan.len) =>
            /\ wr'.res = "Panic" /\ panicked'
            /\ mem' = mem /\ epr' = epr
            /\ epr'[wr'.chan.index].stat_tx # VALID
    ]_vars

C8_Witness ==
    /\ wr.res = "Panic" /\ panicked /\ wr.len = MaxWrite /\ wr.len > wr.chan.len
    /\ wr.chan.len > 0
    /\ epr[env.ep].stat_tx = DISABLED
    /\ MemRead(mem, wr.chan.index * 2) = Word(0, 0)

\* C10 as stated: when the handler clears a complete-flag of a channel, the
\* waker of that channel and direction has been registered.
C10_ClearedAfterRegistered ==
    [][(IsrLeaves("ctr") /\ isr.istr.ctr) =>
        LET i == isr.istr.ep_id
        IN  /\ epr[i].ctr_rx => wakers.in[i] # NoWaker
            /\ epr[i].ctr_tx => wakers.out[i] # NoWaker
    ]_vars

\* C10, amended: the handler may clear a complete-flag before the operation
\* has registered its waker (the channel is armed before the first poll), but
\* no completion is lost: a poll registers the waker before it reads the
\* status, so from its registration on the waker stays registered, and
\* whenever an operation is pending while its transaction has completed,
\* either its task has been woken or the complete-flag is still asserted.
C10_NoCompletionLost ==
    /\ rd.pc \in {"bus", "stat", "pending"} => wakers.in[rd.chan.index] = "rd"
    /\ wr.pc \in {"bus", "stat", "pending"} => wakers.out[wr.chan.index] = "wr"
    /\ (rd.pc = "pending" /\ epr[rd.chan.index].stat_rx \in {DISABLED, STALL}) =>
            "rd" \in woken \/ epr[rd.chan.index].ctr_rx
    /\ (wr.pc = "pending" /\ epr[wr.chan.index].stat_tx \in {DISABLED, STALL}) =>
            "wr" \in woken \/ epr[wr.chan.index].ctr_tx

\* The handler has cleared receive-complete of a read that has not polled yet,
\* and has woken a pending write whose transaction completed
C10_Witness ==
    /\ rd.pc = "poll" /\ wakers.in[env.ep] = NoWaker
    /\ epr[env.ep].stat_rx = DISABLED /\ ~epr[env.ep].ctr_rx /\ hw.txn = 1
    /\ wr.pc = "pending" /\ epr[env.ep].stat_tx = DISABLED /\ ~epr[env.ep].ctr_tx
    /\ "wr" \in woken /\ isr.pc = "idle"

\* C4: a write given a timeout, pending on a connected device with its
\* transmit-status Nak, eventually returns Err(Timeout) with transmit-status
\* Disabled (unless the device is unplugged first).
C4_NakedWriteTimesOut ==
    (/\ wr.pc = "pending" /\ wr.timeout_ms # -1 /\ istr.dcon_stat
     /\ epr[wr.chan.index].stat_tx = NAK)
        ~> (\/ ~istr.dcon_stat
            \/ /\ wr.pc = "done" /\ wr.res = "Timeout"
               /\ epr[wr.chan.index].stat_tx = DISABLED)

(***************************************************************************)
(* Properties of the allocation of channels and packet memory              *)
(***************************************************************************)
\* C11: at most one Channel object exists for each (index, direction) pair:
\* no two handles held by callers name the same channel and direction, and the
\* packet-memory regions of any two handles of one direction do not overlap.
C11_OneChannelPerPair ==
    \A h1, h2 \in handles :
        (h1 # h2 /\ h1.dir = h2.dir) =>
            /\ h1.chan.index # h2.chan.index
            /\ \/ h1.chan.addr + h1.chan.len <= h2.chan.addr
               \/ h2.chan.addr + h2.chan.len <= h1.chan.addr

\* a claim call that got as far as asking for packet memory
AsksForMemory ==
    /\ last'.n = last.n + 1 /\ last'.op \in AllocOps
    /\ last'.res.err \notin {"AlreadyInUse", "InvalidIndex"}

\* C12: the allocation of packet memory is a bump pointer: it fails, without
\* panic and without moving the free pointer, exactly when free + len exceeds
\* USBRAM_SIZE; otherwise it returns the free offset and advances the pointer
\* by len; and the free pointer never decreases except by a full reset.
C12_BumpPointer ==
    [][/\ AsksForMemory =>
            LET len == RegionLen(last'.dir, last'.mps)
            IN  IF drv.ep_mem_free + len > USBRAM_SIZE
                THEN /\ ~last'.res.ok /\ ~last'.res.panic
                     /\ drv'.ep_mem_free = drv.ep_mem_free
                ELSE /\ last'.res.ok
                     /\ last'.res.chan.addr = drv.ep_mem_free
                     /\ drv'.ep_mem_free = drv.ep_mem_free + len
       /\ drv'.ep_mem_free < drv.ep_mem_free => last'.op = "reconfigure_channel0"
    ]_vars

\* the smallest descriptors of endpoint k, for asking whether it can be claimed
SmallIn(k) == [endpoint_address |-> 128 + k, max_packet_size |-> 8, ep_type |-> "Bulk"]
SmallOut(k) == [endpoint_address |-> k, max_packet_size |-> 8, ep_type |-> "Bulk"]

\* C13: after a successful reconfigure_channel0(max_packet_size, device_address),
\* called in any state, each in-use mask holds exactly index 0, the free pointer
\* is 64 plus the two channel-0 region lengths, both control channels are bound
\* to the new regions, and every index 1..7 can be claimed in both directions;
\* alloc_channel_in / alloc_channel_out never hand out index 0 or one above 7.
C13_ReconfigureResetsAndClaimsZero ==
    /\ (last.op = "reconfigure_channel0" /\ last.res.ok) =>
        LET li == RegionLen("In", last.mps)
            lo == RegionLen("Out", last.mps)
        IN  /\ drv.channels_in_used = 1 /\ drv.channels_out_used = 1
            /\ drv.ep_mem_free = EP_COUNT * 8 + li + lo
            /\ drv.control_channel_in = Channel_new(0, EP_COUNT * 8, li, last.mps)
            /\ drv.control_channel_out = Channel_new(0, EP_COUNT * 8 + li, lo, last.mps)
            /\ \A k \in 1 .. (EP_COUNT - 1) :
                LET ci == alloc_channel_in(drv, epr, mem, SmallIn(k))
                    co == alloc_channel_out(ci.drv, ci.epr, ci.mem, SmallOut(k))
                IN  /\ ci.res.ok /\ ci.res.chan.index = k
                    /\ co.res.ok /\ co.res.chan.index = k
    /\ (last.op \in AllocOps /\ last.res.ok) =>
            last.res.chan.index \in 1 .. (EP_COUNT - 1)

\* a successful reconfiguration with the larger size in a state where channel 0
\* and another channel had been claimed before
C13_Witness ==
    /\ last.op = "reconfigure_channel0" /\ last.res.ok /\ last.mps = 64
    /\ \E p \in last.prev : p[2] = 0
    /\ \E p \in last.prev : p[2] # 0

(***************************************************************************)
(* SpecCtl: one control request on channel 0, with the interrupt handler   *)
(* and the controller                                                      *)
(***************************************************************************)
MaxCtlData == 2         \* data / dest of 0 or MaxCtlData bytes

SetupLen == 8           \* bytes: the setup packet

TimeoutOut == 1000      \* set_timeout_ms(1000) of control_request_out
TimeoutIn == 50         \* set_timeout_ms(50) of control_request_in

CtlDataLens == {0, MaxCtlData}

\* The operation of a stage and the length of its buffer
control_request_stage(kind, stage, dlen) ==
    CASE stage = "setup" -> [op |-> "write", len |-> SetupLen]
      [] stage = "data" -> [op |-> IF kind = "out" THEN "write" ELSE "read", len |-> dlen]
      [] stage = "status" -> [op |-> IF kind = "out" THEN "read" ELSE "write", len |-> 0]

control_request_next_ignores_err(kind, stage, dlen, ok) ==
    CASE stage = "setup" -> IF kind = "out" /\ dlen = 0 THEN "status" ELSE "data"
      [] stage = "data" -> "status"
      [] stage = "status" -> "Ok"

\* What follows a stage whose operation returned: `.map_err(|_| ())?` returns
\* Err at once, `if data.len() > 0` skips the data stage of an out request.
control_request_next(kind, stage, dlen, ok) ==
    IF ~ok THEN "Err"
    ELSE CASE stage = "setup" -> IF kind = "out" /\ dlen = 0 THEN "status" ELSE "data"
           [] stage = "data" -> "status"
           [] stage = "status" -> "Ok"

\* The operation the request is waiting for
CtlAwaited ==
    IF control_request_stage(ctl.kind, ctl.stage, ctl.dlen).op = "write" THEN wr ELSE rd

InitCtl ==
    /\ env = [ep |-> EnvNone.ep, mps |-> SetupLen, bufs |-> {}, lens |-> {},
              timeouts |-> {}, sof |-> FALSE]
    /\ drv = DrvNew /\ handles = {} /\ epr = EprInit /\ mem = <<>>
    /\ istr = [IstrInit EXCEPT !.dcon_stat = TRUE]
    /\ wakers = WakersInit /\ woken = {} /\ isr = IsrIdle
    /\ rd = RdIdle /\ wr = WrIdle /\ now = 0 /\ hw = HwInit /\ last = LastNone
    /\ calc = CalcIdle /\ ctl = CtlIdle /\ wt = WtIdle /\ panicked = FALSE

\* control_request_out / control_request_in is called: the setup bit is written
CtlBegin ==
    /\ ~panicked /\ isr.pc = "idle" /\ last.op = "start" /\ ctl.pc = "idle"
    /\ \E k \in {"out", "in"}, n \in CtlDataLens :
        ctl' = [CtlIdle EXCEPT !.pc = "start", !.kind = k, !.stage = "setup", !.dlen = n]
    /\ epr' = [epr EXCEPT ![0] = setup_stage_write(@)]
    /\ UNCHANGED <<drv, handles, istr, mem, wakers, woken, isr, rd, wr, now, hw,
                   last, calc, wt, env, panicked>>

\* The operation of the current stage is called on the driver's channel 0
CtlArm ==
    /\ ~panicked /\ isr.pc = "idle" /\ ctl.pc = "start"
    /\ LET st == control_request_stage(ctl.kind, ctl.stage, ctl.dlen)
           t == IF ctl.kind = "out" THEN TimeoutOut ELSE TimeoutIn
       IN  /\ IF st.op = "write"
              THEN /\ write_begin(drv.control_channel_out, st.len, t)
                   /\ UNCHANGED rd
              ELSE /\ read_begin(drv.control_channel_in, st.len, t)
                   /\ UNCHANGED <<wr, mem, panicked>>
           /\ ctl' = [ctl EXCEPT !.pc = "await",
                                 !.log = Append(@, [stage |-> ctl.stage, op |-> st.op,
                                                    len |-> st.len])]
    /\ UNCHANGED <<drv, handles, istr, wakers, woken, isr, now, hw, last, calc, wt, env>>

\* The operation returned: `?`, then the next stage or the request's return
CtlResume ==
    /\ ~panicked /\ isr.pc = "idle" /\ ctl.pc = "await"
    /\ CtlAwaited.pc = "done"
    /\ LET nx == control_request_next(ctl.kind, ctl.stage, ctl.dlen,
                                      CtlAwaited.res = "Ok")
           val == IF ctl.kind = "in" /\ ctl.stage = "data" THEN rd.val ELSE ctl.val
       IN  ctl' = IF nx \in {"Ok", "Err"}
                  THEN [ctl EXCEPT !.pc = "done", !.res = nx]
                  ELSE [ctl EXCEPT !.pc = "start", !.stage = nx, !.val = val]
    /\ UNCHANGED <<drv, handles, epr, istr, mem, wakers, woken, isr, rd, wr, now,
                   hw, last, calc, wt, env, panicked>>

\* Time passes until the time-out of the awaited operation has elapsed
CtlElapse ==
    /\ ~panicked /\ ctl.pc = "await"
    /\ CtlAwaited.pc \notin {"idle", "done"}
    /\ now - CtlAwaited.t0 <= CtlAwaited.timeout_ms
    /\ now' = CtlAwaited.t0 + CtlAwaited.timeout_ms + 1
    /\ UNCHANGED <<drv, handles, epr, istr, mem, wakers, woken, isr, rd, wr, hw,
                   last, calc, ctl, wt, env, panicked>>

NextCtl ==
    \/ Start
    \/ CtlBegin
    \/ CtlArm
    \/ CtlResume
    \/ CtlElapse
    \/ ReadRegister
    \/ ReadCheckBus
    \/ ReadStatus
    \/ WriteRegister
    \/ WriteCheckBus
    \/ WriteStatus
    \/ IsrEnter
    \/ IsrReset
    \/ IsrCtr
    \/ IsrErr
    \/ IsrAck
    \/ HwRxData
    \/ HwRxRefused
    \/ HwTxAck
    \/ HwTxRefused
    \/ HwError
    \/ HwDisconnect

SpecCtl == InitCtl /\ [][NextCtl]_vars

\* The operations of a whole request, in order
CtlStages(kind, dlen) ==
    IF kind = "out"
    THEN <<[stage |-> "setup", op |-> "write", len |-> SetupLen]>>
         \o (IF dlen > 0 THEN <<[stage |-> "data", op |-> "write", len |-> dlen]>>
             ELSE <<>>)
         \o <<[stage |-> "status", op |-> "read", len |-> 0]>>
    ELSE <<[stage |-> "setup", op |-> "write", len |-> SetupLen],
           [stage |-> "data", op |-> "read", len |-> dlen],
           [stage |-> "status", op |-> "write", len |-> 0]>>

\* The operation armed last
CtlReturned == IF ctl.log[Len(ctl.log)].op = "write" THEN wr ELSE rd

IsPrefix(a, b) == Len(a) <= Len(b) /\ a = SubSeq(b, 1, Len(a))

\* C14: the operations a control request arms on channel 0 are, in order, a
\* prefix of setup write, data write (out, only for non-empty data) or data
\* read (in), zero-length status read (out) or write (in); an operation is armed
\* only when every earlier one returned Ok; the request returns Ok only after
\* all of them, an in request with the count of the data-stage read; it returns
\* Err as soon as one fails, and nothing is armed on channel 0 after the return.
C14_StagesInOrder ==
    [][/\ ctl'.pc # "idle" => IsPrefix(ctl'.log, CtlStages(ctl'.kind, ctl'.dlen))
       /\ (ctl.pc = "start" /\ ctl'.pc = "await" /\ Len(ctl.log) > 0) =>
            /\ CtlReturned.pc = "done" /\ CtlReturned.res = "Ok"
            /\ epr[0].stat_rx # VALID /\ epr[0].stat_tx # VALID
       /\ (ctl.pc = "await" /\ ctl'.pc = "done") =>
            /\ ctl'.log = ctl.log
            /\ ctl'.res = "Ok" <=>
                /\ CtlAwaited.res = "Ok"
                /\ ctl.log = CtlStages(ctl.kind, ctl.dlen)
            /\ ctl'.res = "Err" <=> CtlAwaited.res # "Ok"
            /\ (ctl'.res = "Ok" /\ ctl.kind = "in") =>
                    ctl'.val = Len(hw.payload) /\ ctl'.val <= ctl.dlen
       /\ ctl.pc = "done" =>
            /\ ctl' = ctl
            /\ epr'[0].stat_rx # VALID /\ epr'[0].stat_tx # VALID
    ]_vars

\* an in request that ran its three stages and returns the count of its data
C14_Witness ==
    /\ ctl.pc = "done" /\ ctl.res = "Ok" /\ ctl.kind = "in"
    /\ Len(ctl.log) = 3 /\ ctl.val = MaxCtlData /\ rd.val = MaxCtlData

(***************************************************************************)
(* SpecEpr: the task-side writes of channel register 0, from every value   *)
(* the register can hold                                                   *)
(***************************************************************************)
EprValues ==
    [ctr_rx : BOOLEAN, ctr_tx : BOOLEAN, dtog_rx : BOOLEAN, dtog_tx : BOOLEAN,
     stat_rx : StatValues, stat_tx : StatValues, err_rx : BOOLEAN, err_tx : BOOLEAN,
     setup : BOOLEAN, devaddr : {0}, ep_type : {"BULK"}, ea : {0}]

InitEpr ==
    /\ epr \in {[EprInit EXCEPT ![0] = v] : v \in EprValues}
    /\ env = EnvNone
    /\ drv = DrvNew /\ handles = {} /\ mem = <<>> /\ istr = IstrInit
    /\ wakers = WakersInit /\ woken = {} /\ isr = IsrIdle
    /\ rd = RdIdle /\ wr = WrIdle /\ now = 0 /\ hw = HwInit /\ last = LastNone
    /\ calc = CalcIdle /\ ctl = CtlIdle /\ wt = WtIdle /\ panicked = FALSE

\* One task-side write, named op, takes register 0 to the value after
EprApply(op, after) ==
    /\ epr' = [epr EXCEPT ![0] = after]
    /\ last' = [last EXCEPT !.op = op, !.before = epr[0]]
    /\ UNCHANGED <<drv, handles, istr, mem, wakers, woken, isr, rd, wr, now, hw,
                   calc, ctl, wt, env, panicked>>

EprInActivate == EprApply("In::activate", In_activate(epr[0]))

EprInDisable == EprApply("In::disable", In_disable(epr[0]))

EprOutActivate == EprApply("Out::activate", Out_activate(epr[0]))

EprOutDisable == EprApply("Out::disable", Out_disable(epr[0]))

EprConfigure ==
    \E t \in {"CONTROL", "INTERRUPT"}, a \in DevAddrChoices :
        EprApply("configure", ConfigureEpr(epr, 0, t, a)[0])

EprSetup == EprApply("setup", setup_stage_write(epr[0]))

NextEpr ==
    \/ EprInActivate
    \/ EprInDisable
    \/ EprOutActivate
    \/ EprOutDisable
    \/ EprConfigure
    \/ EprSetup

SpecEpr == InitEpr /\ [][NextEpr]_vars

\* C15: activate leaves the channel's own status at Valid and disable leaves
\* it at Disabled, whatever the status was before (Disabled, Stall, Nak or
\* Valid): In on receive-status, Out on transmit-status.
C15_ActivateValidDisableDisabled ==
    /\ last.op = "In::activate" => epr[0].stat_rx = VALID
    /\ last.op = "In::disable" => epr[0].stat_rx = DISABLED
    /\ last.op = "Out::activate" => epr[0].stat_tx = VALID
    /\ last.op = "Out::disable" => epr[0].stat_tx = DISABLED

\* In was armed from Nak and Out disabled from Stall
C15_Witness ==
    \/ last.op = "In::activate" /\ last.before.stat_rx = NAK
                                /\ epr[0].stat_rx = VALID
    \/ last.op = "Out::disable" /\ last.before.stat_tx = STALL
                                /\ epr[0].stat_tx = DISABLED

\* The fields of the channel register a task-side write targets
EprTargets(op) ==
    CASE op \in {"In::activate", "In::disable"} -> {"stat_rx"}
      [] op \in {"Out::activate", "Out::disable"} -> {"stat_tx"}
      [] op = "configure" -> {"devaddr", "ep_type", "ea"}
      [] op = "setup" -> {"setup"}

\* C16: every task-side write of the shared channel register (activate,
\* disable, the configuration write of a claim, the setup-bit write) leaves
\* every field it does not target as it was: the other direction's status,
\* both complete-flags and both data toggles included.
C16_UntargetedFieldsKept ==
    last.op # "none" =>
        \A f \in (DOMAIN EprReset) \ EprTargets(last.op) : epr[0][f] = last.before[f]

\* In is armed while Out is in flight, both complete-flags are pending and both
\* data toggles are set
C16_Witness ==
    /\ last.op = "In::activate" /\ last.before.stat_rx # VALID
    /\ epr[0].stat_tx = VALID /\ epr[0].ctr_rx /\ epr[0].ctr_tx
    /\ epr[0].dtog_rx /\ epr[0].dtog_tx

(* Properties of the polls of a read and of a write *)
\* C17: a poll that finds the device connected, the timeout not exceeded and a
\* status other than Disabled writes no register and no packet memory: on Stall
\* the operation returns Err(Stall) with the status left at Stall, on Nak or
\* Valid it stays pending without re-arming, and the bytes accumulated so far
\* are kept.
C17_NonDisabledPollWritesNothing ==
    [][/\ (rd'.pc # rd.pc /\ rd'.pc \in {"bus", "stat"}) => epr' = epr /\ mem' = mem
       /\ (wr'.pc # wr.pc /\ wr'.pc \in {"bus", "stat"}) => epr' = epr /\ mem' = mem
       /\ (rd.pc = "stat" /\ rd'.pc # "stat"
             /\ epr[rd.chan.index].stat_rx # DISABLED) =>
            /\ epr' = epr /\ mem' = mem
            /\ rd'.buf = rd.buf /\ rd'.count = rd.count /\ rd'.rearms = rd.rearms
            /\ IF epr[rd.chan.index].stat_rx = STALL
               THEN rd'.pc = "done" /\ rd'.res = "Stall"
               ELSE rd'.pc = "pending"
       /\ (wr.pc = "stat" /\ wr'.pc # "stat"
             /\ epr[wr.chan.index].stat_tx # DISABLED) =>
            /\ epr' = epr /\ mem' = mem
            /\ IF epr[wr.chan.index].stat_tx = STALL
               THEN wr'.pc = "done" /\ wr'.res = "Stall"
               ELSE wr'.pc = "pending"
    ]_vars

\* a read that had stored a full packet, or a write, ended by Stall with the
\* status still Stall
C17_Witness ==
    \/ /\ rd.pc = "done" /\ rd.res = "Stall" /\ rd.count > 0
       /\ epr[rd.chan.index].stat_rx = STALL
    \/ /\ wr.pc = "done" /\ wr.res = "Stall"
       /\ epr[wr.chan.index].stat_tx = STALL

\* C18: during a read into a buffer of length B the byte count never exceeds B;
\* a completed transaction whose received length exceeds the space left ends
\* the read with Err(BufferOverflow) at that poll, with the caller's buffer and
\* the count as they were and the channel not re-armed; no other completed
\* transaction gives BufferOverflow; a read into an empty buffer returns Ok(0)
\* only when the transaction received 0 bytes.
C18_CountWithinBuffer ==
    [][/\ rd'.count <= Len(rd'.buf)
       /\ (rd.pc = "stat" /\ rd'.pc # "stat"
             /\ epr[rd.chan.index].stat_rx = DISABLED) =>
            LET n == Len(hw.payload)
                space == Len(rd.buf) - rd.count
            IN  /\ rd'.res = "BufferOverflow" <=> n > space
                /\ n > space =>
                    /\ rd'.pc = "done"
                    /\ rd'.buf = rd.buf /\ rd'.count = rd.count
                    /\ epr' = epr /\ rd'.rearms = rd.rearms
       /\ (rd'.pc = "done" /\ rd'.res = "Ok" /\ Len(rd'.buf) = 0) =>
            rd'.val = 0 /\ Len(hw'.payload) = 0
    ]_vars

\* a second packet did not fit what the first had left of the buffer
C18_Witness ==
    /\ rd.pc = "done" /\ rd.res = "BufferOverflow"
    /\ rd.count > 0 /\ rd.count < Len(rd.buf)
    /\ Len(hw.payload) > Len(rd.buf) - rd.count
    /\ epr[rd.chan.index].stat_rx = DISABLED

\* the timeout given to an operation has elapsed
Elapsed(t) == t.timeout_ms # -1 /\ now - t.t0 > t.timeout_ms

\* C19: a poll of a read or write resolves in the order disconnect, timeout,
\* status: with the device disconnected the result is Disconnected, whatever
\* the clock and the status; with the device connected and the timeout elapsed
\* the result is Timeout, whatever the status (a completed transaction is not
\* delivered, a write does not report success); only otherwise is the status
\* looked at.
C19_DisconnectThenTimeoutThenStatus ==
    [][/\ (rd.pc = "bus" /\ rd'.pc # "bus") =>
            IF ~istr.dcon_stat THEN rd'.pc = "done" /\ rd'.res = "Disconnected"
            ELSE IF Elapsed(rd) THEN rd'.pc = "done" /\ rd'.res = "Timeout"
            ELSE rd'.pc = "stat" /\ rd'.res = "None"
       /\ (wr.pc = "bus" /\ wr'.pc # "bus") =>
            IF ~istr.dcon_stat THEN wr'.pc = "done" /\ wr'.res = "Disconnected"
            ELSE IF Elapsed(wr) THEN wr'.pc = "done" /\ wr'.res = "Timeout"
            ELSE wr'.pc = "stat" /\ wr'.res = "None"
       /\ (rd.pc # "stat" /\ rd'.pc # rd.pc) => rd'.res \notin {"Ok", "Stall", "BufferOverflow"}
       /\ (wr.pc # "stat" /\ wr'.pc # wr.pc) => wr'.res \notin {"Ok", "Stall"}
    ]_vars

\* a read found disconnected after its timeout had elapsed and its transaction
\* had completed, or a write timed out although its transaction had completed
C19_Witness ==
    \/ /\ rd.pc = "done" /\ rd.res = "Disconnected" /\ Elapsed(rd)
       /\ rd.was = DISABLED /\ hw.txn > 0
    \/ /\ wr.pc = "done" /\ wr.res = "Timeout" /\ wr.was = DISABLED
       /\ epr[wr.chan.index].dtog_tx

(* Properties of the error branch of the interrupt handler *)
\* The write of the error branch, applied to every value a register can hold,
\* leaves the value as it was
ErrWriteKeepsAll == \A v \in EprValues : EprWrite(v, on_interrupt_err_value(v)) = v

C21_ClearsOnlyHandled ==
    [][/\ (istr.reset /\ ~istr'.reset) =>
            /\ isr.pc = "reset" /\ isr.istr.reset
            /\ <<"bus", 0>> \in isr'.woke
       /\ (istr.err /\ ~istr'.err) => isr.pc = "err" /\ isr.istr.err
    ]_vars

(***************************************************************************)
(* SpecBus: wait_for_device_connect / wait_for_device_disconnect with the  *)
(* interrupt handler while the device is plugged and unplugged             *)
(***************************************************************************)
InitBus ==
    /\ env \in {[ep |-> EnvNone.ep, kind |-> k, sof |-> FALSE] :
                    k \in {"connect", "disconnect"}}
    /\ istr \in {[IstrInit EXCEPT !.dcon_stat = c] : c \in BOOLEAN}
    /\ drv = DrvNew /\ handles = {} /\ epr = EprInit /\ mem = <<>>
    /\ wakers = WakersInit /\ woken = {} /\ isr = IsrIdle
    /\ rd = RdIdle /\ wr = WrIdle /\ now = 0 /\ hw = HwInit /\ last = LastNone
    /\ calc = CalcIdle /\ ctl = CtlIdle /\ panicked = FALSE
    /\ wt = [WtIdle EXCEPT !.pc = "start"]

\* A poll begins: let istr = T::regs().istr().read().  The first poll is the
\* call's own; a pending task is polled again once its waker has been woken.
WaitRead ==
    /\ isr.pc = "idle"
    /\ wt.pc = "start" \/ (wt.pc = "pending" /\ "wt" \in woken)
    /\ wt' = [pc |-> "read", seen |-> IstrRead(istr, epr).dcon_stat]
    /\ woken' = woken \ {"wt"}
    /\ UNCHANGED <<drv, handles, epr, istr, mem, wakers, isr, rd, wr, now, hw,
                   last, calc, ctl, env, panicked>>

\* What the poll returns for the connect status it read
wait_for_device_poll(kind, seen) ==
    IF (kind = "connect" /\ seen) \/ (kind = "disconnect" /\ ~seen)
    THEN "done" ELSE "pending"

\* BUS_WAKER.register(cx.waker()), then the test of the status read before
WaitRegister ==
    /\ isr.pc = "idle" /\ wt.pc = "read"
    /\ wakers' = [wakers EXCEPT !.bus = AtomicWaker_register(@, "wt")]
    /\ wt' = [wt EXCEPT !.pc = wait_for_device_poll(env.kind, wt.seen)]
    /\ UNCHANGED <<drv, handles, epr, istr, mem, woken, isr, rd, wr, now, hw,
                   last, calc, ctl, env, panicked>>

\* A device is plugged in
HwConnect ==
    /\ ~istr.dcon_stat
    /\ istr' = [istr EXCEPT !.dcon_stat = TRUE, !.reset = TRUE]
    /\ UNCHANGED <<drv, handles, epr, mem, wakers, woken, isr, rd, wr, now, hw,
                   last, calc, ctl, wt, env, panicked>>

NextBus ==
    \/ WaitRead
    \/ WaitRegister
    \/ HwConnect
    \/ HwDisconnect
    \/ IsrEnter
    \/ IsrReset
    \/ IsrCtr
    \/ IsrErr
    \/ IsrAck

\* The handler runs to its end once entered and a task that was started or
\* woken is polled; nothing obliges the device to be plugged or unplugged.
FairBus ==
    /\ WF_vars(IsrEnter) /\ WF_vars(IsrReset) /\ WF_vars(IsrCtr)
    /\ WF_vars(IsrErr) /\ WF_vars(IsrAck)
    /\ SF_vars(WaitRead) /\ SF_vars(WaitRegister)

SpecBus == InitBus /\ [][NextBus]_vars /\ FairBus

\* C22: wait_for_device_connect never misses the event: once the device is
\* connected and stays connected the future completes; and symmetrically
\* wait_for_device_disconnect once the device is disconnected and stays so.
C22_WaitCompletes ==
    /\ <>[](env.kind = "connect" /\ istr.dcon_stat) => <>(wt.pc = "done")
    /\ <>[](env.kind = "disconnect" /\ ~istr.dcon_stat) => <>(wt.pc = "done")

(* Properties of failing claims and of the regions claimed *)
\* C23: a claim that fails leaves the allocation state as it was: when
\* alloc_channel_in / alloc_channel_out returns an error, the free pointer and
\* both in-use masks are unchanged, and a pair not claimed with success since
\* the last reset is claimed with success whenever its region fits.
C23_FailedClaimChangesNothing ==
    [][(last'.n = last.n + 1 /\ last'.op \in AllocOps) =>
        /\ (~last'.res.ok /\ ~last'.res.panic) =>
                /\ drv'.ep_mem_free = drv.ep_mem_free
                /\ drv'.channels_in_used = drv.channels_in_used
                /\ drv'.channels_out_used = drv.channels_out_used
        /\ (/\ last'.index \in 1 .. (EP_COUNT - 1)
            /\ <<last'.dir, last'.index>> \notin last.claimed
            /\ drv.ep_mem_free + RegionLen(last'.dir, last'.mps) <= USBRAM_SIZE)
                => last'.res.ok
    ]_vars

\* The channels claimed since the last reset that are still held (last.since
\* is the number of the call that reset last), and the driver's channels 0
ClaimedChannels ==
    {h \in handles : h.id > last.since}
    \cup (IF <<"In", 0>> \in last.claimed
          THEN {[dir |-> "In", id |-> 0, chan |-> drv.control_channel_in]} ELSE {})
    \cup (IF <<"Out", 0>> \in last.claimed
          THEN {[dir |-> "Out", id |-> 0, chan |-> drv.control_channel_out]} ELSE {})

\* C24: after any sequence of claims and resets the free pointer lies in
\* 64 .. USBRAM_SIZE, and the regions of the channels claimed since the last
\* reset are pairwise disjoint, lie inside [64, USBRAM_SIZE), are aligned to
\* USBRAM_ALIGN and are at least as long as the channel's max packet size.
C24_RegionsWithinMemory ==
    /\ EP_COUNT * 8 <= drv.ep_mem_free /\ drv.ep_mem_free <= USBRAM_SIZE
    /\ \A h \in ClaimedChannels :
        /\ EP_COUNT * 8 <= h.chan.addr
        /\ h.chan.addr + h.chan.len <= USBRAM_SIZE
        /\ h.chan.addr % USBRAM_ALIGN = 0 /\ h.chan.len % USBRAM_ALIGN = 0
        /\ h.chan.len >= h.chan.max_packet_size
    /\ \A h1, h2 \in ClaimedChannels :
        h1 # h2 => \/ h1.chan.addr + h1.chan.len <= h2.chan.addr
                   \/ h2.chan.addr + h2.chan.len <= h1.chan.addr

(***************************************************************************)
(* SpecRead: the run of the read, under fair scheduling                    *)
(***************************************************************************)
InitRead == Init /\ env.lens = {}

NextRead ==
    \/ Start
    \/ OpenIn
    \/ OpenOut
    \/ ReadStart
    \/ ReadRegister
    \/ ReadCheckBus
    \/ ReadStatus
    \/ IsrEnter
    \/ IsrReset
    \/ IsrCtr
    \/ IsrErr
    \/ IsrAck
    \/ HwRxData
    \/ HwRxRefused
    \/ HwError
    \/ HwDisconnect
    \/ Tick

\* The interrupt handler runs when an interrupt is pending and runs to its
\* end; the task is polled when it was started or woken and its poll runs to
\* its end.  A poll of a task that was not woken may happen and need not;
\* nothing obliges the device to answer or time to pass.
FairRead ==
    /\ WF_vars(IsrEnter) /\ WF_vars(IsrReset) /\ WF_vars(IsrCtr)
    /\ WF_vars(IsrErr) /\ WF_vars(IsrAck)
    /\ SF_vars(ReadRegister /\ (rd.pc = "poll" \/ "rd" \in woken))
    /\ SF_vars(ReadCheckBus) /\ SF_vars(ReadStatus)

SpecRead == InitRead /\ [][NextRead]_vars /\ FairRead

\* the read is in progress
Reading == rd.pc \in {"poll", "bus", "stat", "pending"}

\* a transaction has completed on the read's channel and no poll has taken it
Unconsumed == Reading /\ epr[rd.chan.index].stat_rx = DISABLED

\* the step is a poll of the read taking a completed transaction
Consumes == Len(rd'.obs) = Len(rd.obs) + 1

\* the transactions whose bytes the read has copied to the caller's buffer
Copied == Len(rd.obs) - (IF rd.res \in {"BufferOverflow", "Panic"} THEN 1 ELSE 0)

\* C25 as stated: every transaction that completes during a read is consumed,
\* its bytes copied to the caller's buffer: when the read has returned, as
\* many transactions have been copied as have completed.
C25_EveryCompletionCopied == rd.pc = "done" => Copied = hw.txn

\* C25, amended: a completed transaction is taken at most once and in order,
\* by the first poll after it that reaches the status test, and the next
\* transaction completes only after that; its bytes are copied once, at the
\* next offset, when they fit the space left, and otherwise the read returns
\* Err(BufferOverflow) without copying; a poll that finds the device
\* disconnected or the timeout elapsed ends the read without taking it.  The
\* caller's buffer changes in no other step.  A read with a completed
\* transaction not yet taken does not stay so forever.
C25_CompletionsTakenOnceInOrder ==
    /\ [](\/ rd.pc = "idle"
          \/ /\ Len(rd.obs) <= hw.txn /\ hw.txn <= Len(rd.obs) + 1
             /\ Reading => (Unconsumed <=> hw.txn = Len(rd.obs) + 1)
             /\ (rd.pc = "done" /\ hw.txn # Copied) =>
                    rd.res \in {"Disconnected", "Timeout", "BufferOverflow"})
    /\ [][/\ hw'.txn # hw.txn =>
               /\ Reading /\ hw.txn = Len(rd.obs) /\ hw'.txn = hw.txn + 1
               /\ rd' = rd
          /\ Consumes =>
               /\ rd.pc = "stat" /\ Unconsumed /\ hw.txn = Len(rd.obs) + 1
               /\ rd'.obs = Append(rd.obs, Len(hw.payload))
               /\ IF Len(hw.payload) <= Len(rd.buf) - rd.count
                  THEN /\ rd'.count = rd.count + Len(hw.payload)
                       /\ rd'.buf = [j \in 1 .. Len(rd.buf) |->
                                       IF j > rd.count /\ j <= rd'.count
                                       THEN hw.payload[j - rd.count]
                                       ELSE rd.buf[j]]
                       /\ rd'.res \in {"None", "Ok"}
                  ELSE /\ rd'.res = "BufferOverflow"
                       /\ rd'.buf = rd.buf /\ rd'.count = rd.count
          /\ (rd.pc # "idle" /\ ~Consumes) =>
               rd'.buf = rd.buf /\ rd'.count = rd.count
       ]_vars
    /\ Unconsumed ~> ~Unconsumed

\* The second transaction completed while the read was pending after the
\* first: the handler has cleared its flag and woken the task, the first
\* payload is in the buffer and the second is still to be taken
C25_Witness ==
    /\ rd.pc = "pending" /\ Len(rd.obs) = 1 /\ hw.txn = 2
    /\ Unconsumed /\ ~epr[rd.chan.index].ctr_rx /\ "rd" \in woken
    /\ isr.pc = "idle"
    /\ rd.count = rd.chan.max_packet_size /\ rd.buf[1] = PayloadByte(1, 1)
    /\ Len(hw.payload) = 1

====
